---- MODULE Spec2Model ----
(***************************************************************************)
(* OPTIMA: the output validation/repair pipeline (src/lib/promptBuilder.ts) *)
(* and the line-diff engine (src/lib/codeDiff.ts).                         *)
(*                                                                         *)
(* A string is a sequence of one-character strings, so that trimming,      *)
(* splitting and the regular expressions of the source are computed        *)
(* character by character as the source computes them.                     *)
(***************************************************************************)
EXTENDS Integers, Sequences, FiniteSets, TLC

----------------------------------------------------------------------------
(* Characters and string primitives (JavaScript String methods).           *)

Whitespace == {" ", "\t", "\n", "\r"}

LowerChars == {"a","b","c","d","e","f","g","h","i","j","k","l","m",
               "n","o","p","q","r","s","t","u","v","w","x","y","z"}

UpperSeq == <<"A","B","C","D","E","F","G","H","I","J","K","L","M",
              "N","O","P","Q","R","S","T","U","V","W","X","Y","Z">>

LowerSeq == <<"a","b","c","d","e","f","g","h","i","j","k","l","m",
              "n","o","p","q","r","s","t","u","v","w","x","y","z">>

UpperChars == {UpperSeq[k] : k \in 1..26}

DigitChars == {"0","1","2","3","4","5","6","7","8","9"}

\* \w of a regular expression
WordChars == LowerChars \cup UpperChars \cup DigitChars \cup {"_"}

\* [a-zA-Z_$] and [a-zA-Z0-9_$]
IdentStart == LowerChars \cup UpperChars \cup {"_", "$"}

IdentChars == IdentStart \cup DigitChars

ToLower(c) ==
    IF c \in UpperChars THEN LowerSeq[CHOOSE k \in 1..26 : UpperSeq[k] = c] ELSE c

SetMax(S) == CHOOSE x \in S : \A y \in S : y <= x

SetMin(S) == CHOOSE x \in S : \A y \in S : x <= y

Min2(x, y) == IF x <= y THEN x ELSE y

Max2(x, y) == IF x >= y THEN x ELSE y

\* s.substring(from-1) in 1-based positions: the characters from..Len(s)
From(s, from) == SubSeq(s, from, Len(s))

trimEnd(s) ==
    LET keep == {k \in 1..Len(s) : s[k] \notin Whitespace}
    IN  IF keep = {} THEN <<>> ELSE SubSeq(s, 1, SetMax(keep))

trimStart(s) ==
    LET keep == {k \in 1..Len(s) : s[k] \notin Whitespace}
    IN  IF keep = {} THEN <<>> ELSE SubSeq(s, SetMin(keep), Len(s))

trim(s) == trimStart(trimEnd(s))

\* w occurs in s at position p (1-based)
MatchAt(s, p, w) ==
    /\ p >= 1
    /\ p + Len(w) - 1 <= Len(s)
    /\ \A k \in 1..Len(w) : s[p + k - 1] = w[k]

\* the same, ignoring case (the i flag)
MatchAtNoCase(s, p, w) ==
    /\ p >= 1
    /\ p + Len(w) - 1 <= Len(s)
    /\ \A k \in 1..Len(w) : ToLower(s[p + k - 1]) = ToLower(w[k])

startsWith(s, w) == MatchAt(s, 1, w)

endsWith(s, w) == MatchAt(s, Len(s) - Len(w) + 1, w)

includes(s, w) == \E p \in 1..(Len(s) + 1) : MatchAt(s, p, w)

\* s.split('\n'): always at least one element
RECURSIVE SplitFrom(_, _)
SplitFrom(s, from) ==
    LET nl == {k \in from..Len(s) : s[k] = "\n"}
    IN  IF nl = {} THEN <<SubSeq(s, from, Len(s))>>
        ELSE <<SubSeq(s, from, SetMin(nl) - 1)>> \o SplitFrom(s, SetMin(nl) + 1)

split(s) == SplitFrom(s, 1)

\* lines.join('\n')
RECURSIVE join(_)
join(lines) ==
    IF Len(lines) = 0 THEN <<>>
    ELSE IF Len(lines) = 1 THEN lines[1]
    ELSE lines[1] \o <<"\n">> \o join(Tail(lines))

\* first position >= p whose character is not whitespace (Len(s)+1 if none): \s*
SkipWs(s, p) ==
    LET stop == {k \in p..Len(s) : s[k] \notin Whitespace}
    IN  IF stop = {} THEN Len(s) + 1 ELSE SetMin(stop)

\* first position >= p whose character is not in the class (Len(s)+1 if none)
SkipClass(s, p, class) ==
    LET stop == {k \in p..Len(s) : s[k] \notin class}
    IN  IF stop = {} THEN Len(s) + 1 ELSE SetMin(stop)

----------------------------------------------------------------------------
(* normalizeCode: per-line trimEnd, then trim of the whole.                *)

normalizeCode(code) ==
    LET lines == split(code)
    IN  trim(join([k \in 1..Len(lines) |-> trimEnd(lines[k])]))

----------------------------------------------------------------------------
(* Code element extraction, used for validation.                           *)

\* the identifier [a-zA-Z_$][a-zA-Z0-9_$]* starting at p, as a record:
\* ok says whether one starts there, name is the longest one
IdentAt(s, p) ==
    IF p <= Len(s) /\ s[p] \in IdentStart
    THEN [ok |-> TRUE, name |-> SubSeq(s, p, SkipClass(s, p, IdentChars) - 1)]
    ELSE [ok |-> FALSE, name |-> <<>>]

\* keyword \s+ identifier at position p
KeywordIdentAt(s, p, kw) ==
    IF MatchAt(s, p, kw) /\ p + Len(kw) <= Len(s) /\ s[p + Len(kw)] \in Whitespace
    THEN IdentAt(s, SkipWs(s, p + Len(kw)))
    ELSE [ok |-> FALSE, name |-> <<>>]

NoMatch == [ok |-> FALSE, name |-> <<>>]

\* the leftmost match, given the outcome of the expression at each position
FirstMatch(tries) ==
    LET hits == {p \in 1..Len(tries) : tries[p].ok}
    IN  IF hits = {} THEN NoMatch ELSE tries[SetMin(hits)]

kwConst == <<"c","o","n","s","t">>
kwLet == <<"l","e","t">>
kwVar == <<"v","a","r">>
kwFunction == <<"f","u","n","c","t","i","o","n">>
kwClass == <<"c","l","a","s","s">>
kwImport == <<"i","m","p","o","r","t">>
kwFrom == <<"f","r","o","m">>

\* /(?:const|let|var)\s+([a-zA-Z_$][a-zA-Z0-9_$]*)/
VarMatchAt(s, p) ==
    IF KeywordIdentAt(s, p, kwConst).ok THEN KeywordIdentAt(s, p, kwConst)
    ELSE IF KeywordIdentAt(s, p, kwLet).ok THEN KeywordIdentAt(s, p, kwLet)
    ELSE KeywordIdentAt(s, p, kwVar)

\* =\s*(?:function|\([^)]*\)\s*=>) with the = at position p
AssignedFunctionAt(s, p) ==
    /\ p <= Len(s)
    /\ s[p] = "="
    /\ LET q == SkipWs(s, p + 1)
       IN  \/ MatchAt(s, q, kwFunction)
           \/ /\ q <= Len(s)
              /\ s[q] = "("
              /\ LET close == SkipClass(s, q + 1, {s[k] : k \in 1..Len(s)} \ {")"})
                 IN  /\ close <= Len(s)
                     /\ MatchAt(s, SkipWs(s, close + 1), <<"=", ">">>)

\* /(?:function\s+(ident)|(ident)\s*=\s*(?:function|\([^)]*\)\s*=>))/
\* funcMatch[1] || funcMatch[2]
FuncMatchAt(s, p) ==
    IF KeywordIdentAt(s, p, kwFunction).ok THEN KeywordIdentAt(s, p, kwFunction)
    ELSE IF IdentAt(s, p).ok
            /\ AssignedFunctionAt(s, SkipWs(s, p + Len(IdentAt(s, p).name)))
    THEN IdentAt(s, p)
    ELSE NoMatch

\* /class\s+([a-zA-Z_$][a-zA-Z0-9_$]*)/
ClassMatchAt(s, p) == KeywordIdentAt(s, p, kwClass)

Quotes == {"'", "\""}

\* from\s+['"]([^'"]+)['"] at position p
FromPathAt(s, p) ==
    IF MatchAt(s, p, kwFrom) /\ p + 4 <= Len(s) /\ s[p + 4] \in Whitespace
    THEN LET q == SkipWs(s, p + 4)
             e == SkipClass(s, q + 1, {s[k] : k \in 1..Len(s)} \ Quotes)
         IN  IF q <= Len(s) /\ s[q] \in Quotes /\ e > q + 1 /\ e <= Len(s)
             THEN [ok |-> TRUE, name |-> SubSeq(s, q + 1, e - 1)]
             ELSE NoMatch
    ELSE NoMatch

\* /import\s+.*?from\s+['"]([^'"]+)['"]/
ImportMatchAt(s, p) ==
    IF MatchAt(s, p, kwImport) /\ p + 6 <= Len(s) /\ s[p + 6] \in Whitespace
    THEN LET hits == {q \in (p + 7)..Len(s) :
                        /\ FromPathAt(s, q).ok
                        /\ \A k \in (p + 7)..(q - 1) : s[k] \notin {"\n", "\r"}}
         IN  IF hits = {} THEN NoMatch ELSE FromPathAt(s, SetMin(hits))
    ELSE NoMatch

\* Set.add: insertion order, no duplicates
SetAdd(seq, m) ==
    IF m.ok /\ \A k \in 1..Len(seq) : seq[k] # m.name THEN Append(seq, m.name) ELSE seq

RECURSIVE ElementsFrom(_, _, _)
ElementsFrom(lines, k, acc) ==
    IF k > Len(lines) THEN acc
    ELSE LET trimmed == trim(lines[k])
         IN  ElementsFrom(lines, k + 1,
                [variables |-> SetAdd(acc.variables, FirstMatch([p \in 1..Len(trimmed) |-> VarMatchAt(trimmed, p)])),
                 functions |-> SetAdd(acc.functions, FirstMatch([p \in 1..Len(trimmed) |-> FuncMatchAt(trimmed, p)])),
                 classes   |-> SetAdd(acc.classes, FirstMatch([p \in 1..Len(trimmed) |-> ClassMatchAt(trimmed, p)])),
                 imports   |-> SetAdd(acc.imports, FirstMatch([p \in 1..Len(trimmed) |-> ImportMatchAt(trimmed, p)]))])

extractCriticalElements(code) ==
    ElementsFrom(split(code), 1,
        [variables |-> <<>>, functions |-> <<>>, classes |-> <<>>, imports |-> <<>>])

Has(seq, x) == \E k \in 1..Len(seq) : seq[k] = x

\* Array.from(orig).filter(x => !opt.has(x))
Missing(orig, opt) == SelectSeq(orig, LAMBDA x : ~Has(opt, x))

\* validateElementPreservation with the functions left out of the comparison
validateElementPreservationNoFunctions(original, optimized) ==
    LET orig == extractCriticalElements(original)
        opt  == extractCriticalElements(optimized)
    IN  [missingVariables |-> Missing(orig.variables, opt.variables),
         missingFunctions |-> <<>>,
         missingClasses   |-> Missing(orig.classes, opt.classes),
         missingImports   |-> Missing(orig.imports, opt.imports)]

validateElementPreservation(original, optimized) ==
    LET orig == extractCriticalElements(original)
        opt  == extractCriticalElements(optimized)
    IN  [missingVariables |-> Missing(orig.variables, opt.variables),
         missingFunctions |-> Missing(orig.functions, opt.functions),
         missingClasses   |-> Missing(orig.classes, opt.classes),
         missingImports   |-> Missing(orig.imports, opt.imports)]

----------------------------------------------------------------------------
(* Similarity score: what fraction of original lines survived.             *)

\* Math.round(num / den) for num >= 0, den > 0: halves round up
RoundDiv(num, den) == (2 * num + den) \div (2 * den)

\* .trim().split('\n').filter(l => l.trim()), each line then trimmed
NonBlankLines(code) ==
    LET kept == SelectSeq(split(trim(code)), LAMBDA l : trim(l) # <<>>)
    IN  [k \in 1..Len(kept) |-> trim(kept[k])]

\* the comparison without its first alternative, o === p
LinesMatchLongOnly(o, p) ==
    /\ Len(o) > 10
    /\ Len(p) > 10
    /\ \/ includes(o, SubSeq(p, 1, 10))
       \/ includes(p, SubSeq(o, 1, 10))

\* o === p || (o.length > 10 && p.length > 10 &&
\*   (o.includes(p.substring(0, 10)) || p.includes(o.substring(0, 10))))
LinesMatch(o, p) ==
    \/ o = p
    \/ /\ Len(o) > 10
       /\ Len(p) > 10
       /\ \/ includes(o, SubSeq(p, 1, 10))
          \/ includes(p, SubSeq(o, 1, 10))

\* the score without the length ratio
calculateCodeSimilarityNoLengthRatio(original, optimized) ==
    LET origLines == NonBlankLines(original)
        optLines  == NonBlankLines(optimized)
        minLength == Min2(Len(origLines), Len(optLines))
        maxLength == Max2(Len(origLines), Len(optLines))
        matchingLines ==
            Cardinality({k \in 1..minLength : LinesMatch(origLines[k], optLines[k])})
    IN  IF Len(origLines) = 0 \/ Len(optLines) = 0 THEN 0
        ELSE RoundDiv(matchingLines * 100, maxLength)

calculateCodeSimilarity(original, optimized) ==
    LET origLines == NonBlankLines(original)
        optLines  == NonBlankLines(optimized)
        minLength == Min2(Len(origLines), Len(optLines))
        maxLength == Max2(Len(origLines), Len(optLines))
        matchingLines ==
            Cardinality({k \in 1..minLength : LinesMatch(origLines[k], optLines[k])})
    IN  IF Len(origLines) = 0 \/ Len(optLines) = 0 THEN 0
        ELSE RoundDiv(matchingLines * minLength * 100, maxLength * maxLength)

----------------------------------------------------------------------------
(* Bracket / brace balance repair.                                         *)

\* openers: Record<string, string>
Closer(ch) == IF ch = "{" THEN "}" ELSE IF ch = "(" THEN ")" ELSE "]"

Openers == {"{", "(", "["}

Closers == {"}", ")", "]"}

\* the backtick character (the module's lexer does not take it inside a string)
Backtick == "BACKTICK"

StringQuotes == {"\"", "'", Backtick}

\* one iteration of the scanning loop at index i (1-based)
ScanStep(code, i, st) ==
    LET ch == code[i]
    IN  IF ~st.inString /\ ch \in StringQuotes
        THEN [st EXCEPT !.inString = TRUE, !.stringChar = ch]
        ELSE IF st.inString /\ ch = st.stringChar /\ (i = 1 \/ code[i - 1] # "\\")
        THEN [st EXCEPT !.inString = FALSE]
        ELSE IF ~st.inString
        THEN IF ch \in Openers
             THEN [st EXCEPT !.stack = Append(st.stack, Closer(ch))]
             ELSE IF ch \in Closers /\ Len(st.stack) > 0 /\ st.stack[Len(st.stack)] = ch
             THEN [st EXCEPT !.stack = SubSeq(st.stack, 1, Len(st.stack) - 1)]
             ELSE st
        ELSE st

RECURSIVE ScanFrom(_, _, _)
ScanFrom(code, i, st) ==
    IF i > Len(code) THEN st ELSE ScanFrom(code, i + 1, ScanStep(code, i, st))

\* the state of the scanner at the end of the text
BracketScan(code) ==
    ScanFrom(code, 1, [stack |-> <<>>, inString |-> FALSE, stringChar |-> ""])

Reverse(seq) == [k \in 1..Len(seq) |-> seq[Len(seq) + 1 - k]]

\* the closers appended in the order of the stack, the outermost first
repairTruncatedCodeStackOrder(code) ==
    LET stack == BracketScan(code).stack
    IN  IF Len(stack) = 0 THEN [repaired |-> code, wasRepaired |-> FALSE]
        ELSE [repaired |->
                 trimEnd(code) \o <<"\n">> \o join([k \in 1..Len(stack) |-> <<stack[k]>>]),
              wasRepaired |-> TRUE]

repairTruncatedCode(code) ==
    LET stack == BracketScan(code).stack
    IN  IF Len(stack) = 0 THEN [repaired |-> code, wasRepaired |-> FALSE]
        ELSE [repaired |->
                 trimEnd(code) \o <<"\n">>
                     \o join([k \in 1..Len(stack) |-> <<Reverse(stack)[k]>>]),
              wasRepaired |-> TRUE]

----------------------------------------------------------------------------
(* Truncation detection.                                                   *)

TruncationKeywords ==
    {<<"i","f">>, <<"f","o","r">>, <<"w","h","i","l","e">>, kwFunction, kwClass,
     <<"d","e","f">>, <<"s","t","r","u","c","t">>}

\* /\b(if|for|while|function|class|def|struct)\s*$/ on a right-trimmed text
EndsWithKeyword(t) ==
    \E kw \in TruncationKeywords :
        /\ endsWith(t, kw)
        /\ \/ Len(t) = Len(kw)
           \/ t[Len(t) - Len(kw)] \notin WordChars

isCodeTruncated(code) ==
    LET t == trimEnd(code)
    IN  \/ endsWith(t, <<".", ".", ".">>)
        \/ endsWith(t, <<".", ".">>)
        \/ endsWith(t, <<"-", ">">>)
        \/ EndsWithKeyword(t)
        \/ (Len(t) > 0 /\ t[Len(t)] \in Openers)

----------------------------------------------------------------------------
(* Code extraction from raw LLM output.                                    *)

Fence == <<Backtick, Backtick, Backtick>>

\* a word, \s+, a word: here\s+is and the like; the position after it, or 0
TwoWordsEnd(s, w1, w2) ==
    IF MatchAtNoCase(s, 1, w1) /\ Len(w1) + 1 <= Len(s) /\ s[Len(w1) + 1] \in Whitespace
          /\ MatchAtNoCase(s, SkipWs(s, Len(w1) + 1), w2)
    THEN SkipWs(s, Len(w1) + 1) + Len(w2)
    ELSE 0

OneWordEnd(s, w) == IF MatchAtNoCase(s, 1, w) THEN Len(w) + 1 ELSE 0

wHere == <<"h","e","r","e">>
wBelow == <<"b","e","l","o","w">>
wIs == <<"i","s">>
wThe == <<"t","h","e">>
wOptimized == <<"o","p","t","i","m","i","z","e","d">>
wCode == <<"c","o","d","e">>
wVersion == <<"v","e","r","s","i","o","n">>
wOutput == <<"o","u","t","p","u","t">>
wResult == <<"r","e","s","u","l","t">>
wAnswer == <<"a","n","s","w","e","r">>
wFixed == <<"f","i","x","e","d">>
wImproved == <<"i","m","p","r","o","v","e","d">>

\* the alternatives of the preamble expression, in its order; each gives the
\* position after the words it matched at the start of the text (0: no match)
PreambleHeads(s) ==
    <<TwoWordsEnd(s, wHere, wIs), TwoWordsEnd(s, wBelow, wIs),
      TwoWordsEnd(s, wThe, wOptimized), TwoWordsEnd(s, wOptimized, wCode),
      TwoWordsEnd(s, wOptimized, wVersion), OneWordEnd(s, wOutput),
      OneWordEnd(s, wResult), OneWordEnd(s, wAnswer), OneWordEnd(s, wFixed),
      OneWordEnd(s, wImproved)>>

\* [^\n]*:\s*\n from position q: the position of the colon that ends the
\* preamble (the rest of its line is whitespace and the line ends), or 0
PreambleColon(s, q) ==
    LET eol == SkipClass(s, q, {s[k] : k \in 1..Len(s)} \ {"\n"})
        colons == {c \in q..(eol - 1) :
                      /\ s[c] = ":"
                      /\ \A k \in (c + 1)..(eol - 1) : s[k] \in Whitespace}
    IN  IF eol <= Len(s) /\ colons # {} THEN SetMax(colons) ELSE 0

\* text.replace(/^(?:here\s+is|...|improved)[^\n]*:\s*\n/i, '').trim()
StripPreamble(text) ==
    LET heads == PreambleHeads(text)
        ok == {k \in 1..Len(heads) : heads[k] > 0 /\ PreambleColon(text, heads[k]) > 0}
    IN  IF ok = {} THEN trim(text)
        ELSE trim(From(text, PreambleColon(text, heads[SetMin(ok)]) + 1))

\* three backticks [\w]*\s*\n at position p: the position after the
\* whitespace that follows the fence line, or 0 when the expression fails
FenceOpenAt(s, p) ==
    IF MatchAt(s, p, Fence)
    THEN LET w == SkipClass(s, p + 3, WordChars)
             r == SkipWs(s, w)
         IN  IF \E k \in w..(r - 1) : s[k] = "\n" THEN r ELSE 0
    ELSE 0

\* the first closing fence at or after position g (0 if none)
NextFence(s, g) ==
    LET at == {c \in g..Len(s) : MatchAt(s, c, Fence)}
    IN  IF at = {} THEN 0 ELSE SetMin(at)

\* text.match(/fence[\w]*\s*\n([\s\S]*?)fence/): the leftmost opening fence
\* that is followed by a closing fence
FencedComplete(text) ==
    LET hits == {p \in 1..Len(text) :
                    FenceOpenAt(text, p) > 0 /\ NextFence(text, FenceOpenAt(text, p)) > 0}
    IN  IF hits = {} THEN [matched |-> FALSE, group |-> <<>>]
        ELSE LET g == FenceOpenAt(text, SetMin(hits))
             IN  [matched |-> TRUE, group |-> SubSeq(text, g, NextFence(text, g) - 1)]

\* text.match(/fence[\w]*\s*\n([\s\S]+)$/): an opening fence with text after it
FencedOpen(text) ==
    LET hits == {p \in 1..Len(text) :
                    FenceOpenAt(text, p) > 0 /\ FenceOpenAt(text, p) <= Len(text)}
    IN  IF hits = {} THEN [matched |-> FALSE, group |-> <<>>]
        ELSE [matched |-> TRUE, group |-> From(text, FenceOpenAt(text, SetMin(hits)))]

\* text.match(/^bt([^bt]+)bt\s*$/), bt the backtick
InlineCode(text) ==
    LET last == Len(trimEnd(text))
    IN  IF /\ last >= 3
           /\ text[1] = Backtick
           /\ text[last] = Backtick
           /\ \A k \in 2..(last - 1) : text[k] # Backtick
        THEN [matched |-> TRUE, group |-> SubSeq(text, 2, last - 1)]
        ELSE [matched |-> FALSE, group |-> <<>>]

CodeLikeChars == {"{", "}", "(", ")", "[", "]", ";", "=", "<", ">", "/", "*"}

SentenceEnd == {".", "!", "?"}

\* /^[A-Z][a-z]+(?:\s+[a-z]+){2,}[.!?]\s*$/ on a trimmed line
IsSentence(t) ==
    LET n == Len(trimEnd(t))
        words == {k \in 2..(n - 1) : t[k] \notin Whitespace /\ t[k - 1] \in Whitespace}
    IN  /\ n >= 7
        /\ t[1] \in UpperChars
        /\ t[2] \in LowerChars
        /\ t[n] \in SentenceEnd
        /\ t[n - 1] \in LowerChars
        /\ \A k \in 2..(n - 1) : t[k] \in LowerChars \cup Whitespace
        /\ Cardinality(words) >= 2

looksLikeProse(t) ==
    /\ IsSentence(t)
    /\ \A k \in 1..Len(t) : t[k] \notin CodeLikeChars

\* the result of extractCode: isNull for null, otherwise the text
NullCode == [isNull |-> TRUE, text |-> <<>>]

SomeCode(text) == [isNull |-> FALSE, text |-> text]

\* Strategy 4: raw text without the lines that look like prose
RawCandidate(text) ==
    LET codeLines ==
            SelectSeq(split(text), LAMBDA line : trim(line) # <<>> /\ ~looksLikeProse(trim(line)))
        candidate == trim(join(codeLines))
    IN  IF candidate = <<>> THEN NullCode ELSE SomeCode(candidate)

extractCode(rawText) ==
    IF trim(rawText) = <<>> THEN NullCode
    ELSE LET text == StripPreamble(trim(rawText))
         IN  IF FencedComplete(text).matched THEN SomeCode(trim(FencedComplete(text).group))
             ELSE IF FencedOpen(text).matched /\ Len(trim(FencedOpen(text).group)) > 10
             THEN SomeCode(trim(FencedOpen(text).group))
             ELSE IF InlineCode(text).matched THEN SomeCode(trim(InlineCode(text).group))
             ELSE RawCandidate(text)

----------------------------------------------------------------------------
(* The main normalizer: raw LLM text to a validated OptimizationResult.    *)
(*                                                                         *)
(* A message built from a template literal is the record of its template  *)
(* and of the values interpolated into it.  analysis.confidence_score is  *)
(* held in thousandths, and an absent optional field is the empty tuple.  *)

Msg(template, nums, parts) == [template |-> template, nums |-> nums, parts |-> parts]

\* one interpolated list: count, label and the names joined by ', '
Part(label, count, names) == [label |-> label, count |-> count, names |-> names]

countMeaningfulLines(code) ==
    Len(SelectSeq(split(code), LAMBDA l :
            LET t == trim(l)
            IN  /\ Len(t) > 0
                /\ ~startsWith(t, <<"/", "/">>)
                /\ ~startsWith(t, <<"#">>)
                /\ ~startsWith(t, <<"*">>)
                /\ t # <<"{">>
                /\ t # <<"}">>))

\* sizeThreshold, in hundredths
sizeThreshold(origMeaningful) ==
    IF origMeaningful <= 10 THEN 10 ELSE IF origMeaningful <= 40 THEN 30 ELSE 40

\* the size check on the raw count: any output shorter than the original fails
SizeCheckFailsAnyShrink(origMeaningful, optMeaningful) ==
    optMeaningful < origMeaningful

\* the size check failing at the threshold as well as below it
SizeCheckFailsAtThreshold(origMeaningful, optMeaningful) ==
    /\ origMeaningful > 0
    /\ optMeaningful * 100 <= sizeThreshold(origMeaningful) * origMeaningful

\* meaningfulRatio < sizeThreshold, the ratio being 1 when the original has
\* no meaningful line
SizeCheckFails(origMeaningful, optMeaningful) ==
    /\ origMeaningful > 0
    /\ optMeaningful * 100 < sizeThreshold(origMeaningful) * origMeaningful

TrivialNames ==
    {<<"i">>, <<"j">>, <<"k">>, <<"n">>, <<"m">>, <<"x">>, <<"y">>, <<"z">>,
     <<"t","m","p">>, <<"t","e","m","p">>, <<"i","d","x">>, <<"l","e","n">>,
     <<"v","a","l">>, <<"r","e","s">>, <<"r","e","t">>, <<"e","r","r">>,
     <<"o","k">>, <<"c","b">>}

\* /^[a-z]$/.test(name) || [...].includes(name)
isTrivialVar(name) ==
    \/ (Len(name) = 1 /\ name[1] \in LowerChars)
    \/ name \in TrivialNames

\* missingParts with the trivial variable names counted as well
missingPartsAllVariables(ev) ==
    LET meaningfulMissingVars == ev.missingVariables
        all == <<Part("variable(s)", Len(meaningfulMissingVars), meaningfulMissingVars),
                 Part("function(s)", Len(ev.missingFunctions), ev.missingFunctions),
                 Part("class(es)", Len(ev.missingClasses), ev.missingClasses),
                 Part("import(s)", Len(ev.missingImports), ev.missingImports)>>
    IN  SelectSeq(all, LAMBDA part : part.count > 0)

\* the non-null entries of missingParts
missingParts(ev) ==
    LET meaningfulMissingVars == SelectSeq(ev.missingVariables, LAMBDA v : ~isTrivialVar(v))
        all == <<Part("variable(s)", Len(meaningfulMissingVars), meaningfulMissingVars),
                 Part("function(s)", Len(ev.missingFunctions), ev.missingFunctions),
                 Part("class(es)", Len(ev.missingClasses), ev.missingClasses),
                 Part("import(s)", Len(ev.missingImports), ev.missingImports)>>
    IN  SelectSeq(all, LAMBDA part : part.count > 0)

\* language || analysis.language, then lang === 'C'
isC(analysis, language) ==
    (IF language # "" THEN language ELSE analysis.language) = "C"

buildExplanation(analysis) ==
    LET highSev == SelectSeq(analysis.detected_patterns, LAMBDA pat : pat.severity = "high")
        first ==
            IF Len(analysis.detected_patterns) > 0
            THEN IF Len(highSev) > 0
                 THEN <<Part("Fixed high-severity issue(s)", Len(highSev),
                             [k \in 1..Len(highSev) |-> highSev[k].description])>>
                 ELSE <<Part("Improved detected pattern(s)",
                             Len(analysis.detected_patterns), <<>>)>>
            ELSE <<>>
        second ==
            IF Len(analysis.possible_optimizations) > 0
            THEN <<Part("Applied", 1, <<analysis.possible_optimizations[1].action>>)>>
            ELSE <<>>
    IN  IF first \o second = <<>>
        THEN <<Part("Performance optimization applied.", 0, <<>>)>>
        ELSE first \o second

\* makeFallback reporting the static confidence instead of 0
makeFallbackStaticConfidence(originalCode, c, analysis, warn) ==
    [strategy       |-> "Fallback - original preserved",
     confidence     |-> RoundDiv(analysis.confidence_score * 100, 1000),
     explanation    |-> warn,
     optimized_code |-> originalCode,
     static_confidence_score |-> analysis.confidence_score,
     _parsed        |-> FALSE,
     _no_change     |-> TRUE,
     _c_language    |-> c,
     _parse_warning |-> <<warn>>]

makeFallback(originalCode, c, analysis, warn) ==
    [strategy       |-> "Fallback - original preserved",
     confidence     |-> 0,
     explanation    |-> warn,
     optimized_code |-> originalCode,
     static_confidence_score |-> analysis.confidence_score,
     _parsed        |-> FALSE,
     _no_change     |-> TRUE,
     _c_language    |-> c,
     _parse_warning |-> <<warn>>]

WarnNoCode == Msg("Could not extract any code from model output.", <<>>, <<>>)

WarnRepaired ==
    Msg("Model output was truncated; missing closing brackets were appended automatically.",
        <<>>, <<>>)

WarnTruncated ==
    Msg("Model output was truncated and could not be repaired; original code preserved.",
        <<>>, <<>>)

WarnSize(optMeaningful, origMeaningful) ==
    Msg("Model output appears severely truncated (_ meaningful lines vs _); original preserved.",
        <<optMeaningful, origMeaningful>>, <<>>)

WarnElements(parts) ==
    Msg("Model dropped critical elements (_); original code preserved to prevent data loss.",
        <<>>, parts)

WarnSimilarity(similarity) ==
    Msg("Optimized code similarity too low (_%) - likely hallucination; original preserved.",
        <<similarity>>, <<>>)

\* step 2 entered for unbalanced brackets only
NeedsRepairUnbalancedOnly(code) == repairTruncatedCode(code).wasRepaired

\* Step 2: isCodeTruncated(extracted) || repairTruncatedCode(extracted).wasRepaired
NeedsRepair(code) == isCodeTruncated(code) \/ repairTruncatedCode(code).wasRepaired

\* the confidence without the special case of an unchanged text
ConfidenceFromScore(analysis, c, noChange, similarity, repaired) ==
    LET base == RoundDiv(analysis.confidence_score * 100, 1000)
        capC == IF c /\ base > 70 /\ ~noChange THEN 70 ELSE base
        capS == IF similarity < 80 THEN Min2(capC, 60) ELSE capC
    IN  IF repaired THEN Min2(capS, 50) ELSE capS

\* the confidence without the cap of a repaired output
ConfidenceNoRepairCap(analysis, c, noChange, similarity, repaired) ==
    LET base == IF noChange THEN 100 ELSE RoundDiv(analysis.confidence_score * 100, 1000)
        capC == IF c /\ base > 70 /\ ~noChange THEN 70 ELSE base
    IN  IF similarity < 80 THEN Min2(capC, 60) ELSE capC

\* Step 6: the confidence of an accepted result
Confidence(analysis, c, noChange, similarity, repaired) ==
    LET base == IF noChange THEN 100 ELSE RoundDiv(analysis.confidence_score * 100, 1000)
        capC == IF c /\ base > 70 /\ ~noChange THEN 70 ELSE base
        capS == IF similarity < 80 THEN Min2(capC, 60) ELSE capC
    IN  IF repaired THEN Min2(capS, 50) ELSE capS

\* the result with noChange decided on the texts as they are
AcceptStrictEquality(code, originalCode, analysis, c, parseWarning) ==
    LET similarity == calculateCodeSimilarity(originalCode, code)
        noChange == code = originalCode
    IN  [strategy |->
            IF noChange THEN "No change needed"
            ELSE IF Len(analysis.possible_optimizations) > 0
                    /\ analysis.possible_optimizations[1].action # ""
                 THEN analysis.possible_optimizations[1].action
                 ELSE "Conservative optimization applied",
         confidence     |-> Confidence(analysis, c, noChange, similarity, parseWarning # <<>>),
         explanation    |->
            IF noChange
            THEN Msg("Code is already well-optimized. No meaningful changes found.", <<>>, <<>>)
            ELSE Msg("Applied conservative optimization (_% similarity preserved). _",
                     <<similarity>>, buildExplanation(analysis)),
         optimized_code |-> code,
         static_confidence_score |-> analysis.confidence_score,
         _parsed        |-> TRUE,
         _no_change     |-> noChange,
         _c_language    |-> c,
         _parse_warning |-> parseWarning]

\* the result with the strategy taken from the analysis only for a close rewrite
AcceptStrategyBySimilarity(code, originalCode, analysis, c, parseWarning) ==
    LET similarity == calculateCodeSimilarity(originalCode, code)
        noChange == normalizeCode(code) = normalizeCode(originalCode)
    IN  [strategy |->
            IF noChange THEN "No change needed"
            ELSE IF Len(analysis.possible_optimizations) > 0
                    /\ analysis.possible_optimizations[1].action # ""
                    /\ similarity >= 80
                 THEN analysis.possible_optimizations[1].action
                 ELSE "Conservative optimization applied",
         confidence     |-> Confidence(analysis, c, noChange, similarity, parseWarning # <<>>),
         explanation    |->
            IF noChange
            THEN Msg("Code is already well-optimized. No meaningful changes found.", <<>>, <<>>)
            ELSE Msg("Applied conservative optimization (_% similarity preserved). _",
                     <<similarity>>, buildExplanation(analysis)),
         optimized_code |-> code,
         static_confidence_score |-> analysis.confidence_score,
         _parsed        |-> TRUE,
         _no_change     |-> noChange,
         _c_language    |-> c,
         _parse_warning |-> parseWarning]

\* Step 6: build successful result
Accept(code, originalCode, analysis, c, parseWarning) ==
    LET similarity == calculateCodeSimilarity(originalCode, code)
        noChange == normalizeCode(code) = normalizeCode(originalCode)
    IN  [strategy |->
            IF noChange THEN "No change needed"
            ELSE IF Len(analysis.possible_optimizations) > 0
                    /\ analysis.possible_optimizations[1].action # ""
                 THEN analysis.possible_optimizations[1].action
                 ELSE "Conservative optimization applied",
         confidence     |-> Confidence(analysis, c, noChange, similarity, parseWarning # <<>>),
         explanation    |->
            IF noChange
            THEN Msg("Code is already well-optimized. No meaningful changes found.", <<>>, <<>>)
            ELSE Msg("Applied conservative optimization (_% similarity preserved). _",
                     <<similarity>>, buildExplanation(analysis)),
         optimized_code |-> code,
         static_confidence_score |-> analysis.confidence_score,
         _parsed        |-> TRUE,
         _no_change     |-> noChange,
         _c_language    |-> c,
         _parse_warning |-> parseWarning]

\* if (!extracted): null and the empty string alike
NothingExtracted(ex) == ex.isNull \/ ex.text = <<>>

----------------------------------------------------------------------------
(* State: one call of normalizeLLMOutput, step by step.                    *)

VARIABLES
    rawText,        \* the model's output (untrusted)
    originalCode,   \* the code submitted
    analysis,       \* the StaticAnalysis of the original
    language,       \* the optional language argument ("" when omitted)
    extracted,      \* let extracted: the candidate, NullCode before Step 1
    parseWarning,   \* let parseWarning: <<>> while undefined
    result,         \* the OptimizationResult returned: <<>> until the call returns
    pc,             \* the position of the call
    \* the other call of a pair of calls on the same original and analysis
    otherRawText,   \* its rawText
    otherResult,    \* its OptimizationResult: <<>> until it has returned
    \* one call of computeDiff
    diffOriginal,   \* its argument original
    diffOptimized,  \* its argument optimized
    aLines,         \* const a = original.slice(0, MAX_LINES)
    bLines,         \* const b = optimized.slice(0, MAX_LINES)
    dp,             \* the LCS table: dp[i][j] is dp[i + 1][j + 1] here
    iBack,          \* let i of the backtrack
    jBack,          \* let j of the backtrack
    ops,            \* const ops
    diff,           \* the DiffLine[] returned: <<>> until the call returns
    diffPc,         \* the position of the call
    stats,          \* the DiffStats computed from diff: <<>> until computed
    \* repairTruncatedCode called on a text, then on its own output
    repairCode,     \* the argument code of the first call
    firstRepair,    \* what the first call returned: <<>> until it has
    secondRepair,   \* what the call on firstRepair.repaired returned
    repairPc,       \* the position of the two calls
    \* one call of calculateCodeSimilarity
    simOriginal,    \* its argument original
    simOptimized,   \* its argument optimized
    simScore,       \* the score returned: <<>> until the call returns
    simPc,          \* the position of the call
    \* the optimizer worker
    modelLoaded,    \* let modelLoaded
    cancelCurrent,  \* let cancelCurrent: 0 for null, k for the cancel of generation k
    posted,         \* the messages given to self.postMessage, in order
    hpc,            \* the position of the message handler under way
    codeBlocks,     \* codeBlocks.length
    blockIdx,       \* let i of the loop over the blocks
    combinedOutput, \* let combinedOutput
    gens,           \* the generations started, one for each call of runLLMCall
    timers,         \* the timeout timer of each call of runLLMCall
    awaited,        \* the call whose Promise.race the handler awaits (0: none)
    parsed,         \* let parsed: <<>> until the first normalization returns
    subStageInterval, \* whether a sub-stage interval is set
    received,       \* the number of messages of each type received
    ticks,          \* the number of times the interval callback has run
    origCount,      \* const origMeaningful of a size check on given counts
    optCount,       \* const optMeaningful of that check
    sizeOutcome,    \* what that check decides: <<>> or the warning of the fallback
    sizePc          \* the position of that check

normVars == <<rawText, originalCode, analysis, language, extracted, parseWarning, result, pc>>

diffVars == <<diffOriginal, diffOptimized, aLines, bLines, dp, iBack, jBack, ops, diff, diffPc, stats>>

repairVars == <<repairCode, firstRepair, secondRepair, repairPc>>

simVars == <<simOriginal, simOptimized, simScore, simPc>>

workerVars ==
    <<modelLoaded, cancelCurrent, posted, hpc, codeBlocks, blockIdx, combinedOutput, gens,
      timers, awaited, parsed, subStageInterval, received, ticks>>

\* the state of the calls that are no part of the call an action belongs to
sizeVars == <<origCount, optCount, sizeOutcome, sizePc>>

restVars == <<repairVars, simVars, workerVars, sizeVars>>

pairVars == <<otherRawText, otherResult>>

vars == <<normVars, pairVars, diffVars, restVars>>

Fallback(warn) ==
    /\ result' = <<makeFallback(originalCode, isC(analysis, language), analysis, warn)>>
    /\ pc' = "Fallback"

\* Step 1: extract code
ExtractStep ==
    /\ pc = "Start"
    /\ extracted' = extractCode(rawText)
    /\ IF NothingExtracted(extracted')
       THEN Fallback(WarnNoCode)
       ELSE pc' = "Extracted" /\ UNCHANGED result
    /\ UNCHANGED <<rawText, originalCode, analysis, language, parseWarning, pairVars, diffVars, restVars>>

\* step 2 leaving the repair warning on every candidate it lets through
TruncationStepWarnsAlways ==
    /\ pc = "Extracted"
    /\ IF NeedsRepair(extracted.text)
       THEN IF repairTruncatedCode(extracted.text).wasRepaired
            THEN /\ extracted' = SomeCode(repairTruncatedCode(extracted.text).repaired)
                 /\ parseWarning' = <<WarnRepaired>>
                 /\ pc' = "TruncationChecked"
                 /\ UNCHANGED result
            ELSE /\ Fallback(WarnTruncated)
                 /\ UNCHANGED <<extracted, parseWarning>>
       ELSE /\ pc' = "TruncationChecked"
            /\ parseWarning' = <<WarnRepaired>>
            /\ UNCHANGED <<extracted, result>>
    /\ UNCHANGED <<rawText, originalCode, analysis, language, pairVars, diffVars, restVars>>

\* Step 2: repair truncation
TruncationStep ==
    /\ pc = "Extracted"
    /\ IF NeedsRepair(extracted.text)
       THEN IF repairTruncatedCode(extracted.text).wasRepaired
            THEN /\ extracted' = SomeCode(repairTruncatedCode(extracted.text).repaired)
                 /\ parseWarning' = <<WarnRepaired>>
                 /\ pc' = "TruncationChecked"
                 /\ UNCHANGED result
            ELSE /\ Fallback(WarnTruncated)
                 /\ UNCHANGED <<extracted, parseWarning>>
       ELSE /\ pc' = "TruncationChecked"
            /\ UNCHANGED <<extracted, parseWarning, result>>
    /\ UNCHANGED <<rawText, originalCode, analysis, language, pairVars, diffVars, restVars>>

\* the size check made after a look at the named elements
SizeStepElementsFirst ==
    /\ pc = "TruncationChecked"
    /\ LET origMeaningful == countMeaningfulLines(originalCode)
           optMeaningful  == countMeaningfulLines(extracted.text)
           parts == missingParts(validateElementPreservation(originalCode, extracted.text))
       IN  IF Len(parts) > 0
           THEN Fallback(WarnElements(parts))
           ELSE IF SizeCheckFails(origMeaningful, optMeaningful)
                THEN Fallback(WarnSize(optMeaningful, origMeaningful))
                ELSE pc' = "SizeChecked" /\ UNCHANGED result
    /\ UNCHANGED <<rawText, originalCode, analysis, language, extracted, parseWarning, pairVars, diffVars, restVars>>

\* Step 3: size sanity check
SizeStep ==
    /\ pc = "TruncationChecked"
    /\ LET origMeaningful == countMeaningfulLines(originalCode)
           optMeaningful  == countMeaningfulLines(extracted.text)
       IN  IF SizeCheckFails(origMeaningful, optMeaningful)
           THEN Fallback(WarnSize(optMeaningful, origMeaningful))
           ELSE pc' = "SizeChecked" /\ UNCHANGED result
    /\ UNCHANGED <<rawText, originalCode, analysis, language, extracted, parseWarning, pairVars, diffVars, restVars>>

\* Step 4: element preservation check
ElementsStep ==
    /\ pc = "SizeChecked"
    /\ LET parts == missingParts(validateElementPreservation(originalCode, extracted.text))
       IN  IF Len(parts) > 0
           THEN Fallback(WarnElements(parts))
           ELSE pc' = "ElementsChecked" /\ UNCHANGED result
    /\ UNCHANGED <<rawText, originalCode, analysis, language, extracted, parseWarning, pairVars, diffVars, restVars>>

\* Step 5 with the fallback below 30 instead of 50
SimilarityStepBelowThirty ==
    /\ pc = "ElementsChecked"
    /\ LET similarity == calculateCodeSimilarity(originalCode, extracted.text)
           noChange == normalizeCode(extracted.text) = normalizeCode(originalCode)
       IN  IF similarity < 30 /\ ~noChange
           THEN Fallback(WarnSimilarity(similarity))
           ELSE pc' = "SimilarityChecked" /\ UNCHANGED result
    /\ UNCHANGED <<rawText, originalCode, analysis, language, extracted, parseWarning, pairVars, diffVars, restVars>>

\* Step 5: similarity check
SimilarityStep ==
    /\ pc = "ElementsChecked"
    /\ LET similarity == calculateCodeSimilarity(originalCode, extracted.text)
           noChange == normalizeCode(extracted.text) = normalizeCode(originalCode)
       IN  IF similarity < 50 /\ ~noChange
           THEN Fallback(WarnSimilarity(similarity))
           ELSE pc' = "SimilarityChecked" /\ UNCHANGED result
    /\ UNCHANGED <<rawText, originalCode, analysis, language, extracted, parseWarning, pairVars, diffVars, restVars>>

\* Step 6 without the warning of the repair
AcceptStepDropsWarning ==
    /\ pc = "SimilarityChecked"
    /\ result' = <<Accept(extracted.text, originalCode, analysis,
                          isC(analysis, language), <<>>)>>
    /\ pc' = "Accepted"
    /\ UNCHANGED <<rawText, originalCode, analysis, language, extracted, parseWarning, pairVars, diffVars, restVars>>

\* Step 6: build successful result
AcceptStep ==
    /\ pc = "SimilarityChecked"
    /\ result' = <<Accept(extracted.text, originalCode, analysis,
                          isC(analysis, language), parseWarning)>>
    /\ pc' = "Accepted"
    /\ UNCHANGED <<rawText, originalCode, analysis, language, extracted, parseWarning, pairVars, diffVars, restVars>>

Returned == pc \in {"Accepted", "Fallback"}

----------------------------------------------------------------------------
(* The line diff (codeDiff.ts): LCS table, iterative backtrack, emission.  *)
(* A line number that is null is the empty tuple, a number n is <<n>>.     *)

\* const MAX_LINES = 300 in the source.  The alignment is parametric in it;
\* the model runs it scaled down, so that inputs longer than the cap are
\* enumerated exhaustively.
MAX_LINES == 3

\* array.slice(0, n)
slice(arr, n) == SubSeq(arr, 1, Min2(Len(arr), n))

\* one row of the table from the row above it: dp[i][0..n]
RECURSIVE LcsRow(_, _, _, _, _)
LcsRow(x, y, r, above, row) ==
    IF Len(row) = Len(y) + 1 THEN row
    ELSE LET c == Len(row)
         IN  LcsRow(x, y, r, above,
                 Append(row, IF x[r] = y[c] THEN above[c] + 1
                             ELSE Max2(above[c + 1], row[c])))

RECURSIVE LcsRows(_, _, _)
LcsRows(x, y, rows) ==
    IF Len(rows) = Len(x) + 1 THEN rows
    ELSE LcsRows(x, y, Append(rows, LcsRow(x, y, Len(rows), rows[Len(rows)], <<0>>)))

\* lcs(a, b): the table of (m + 1) x (n + 1) entries
lcs(x, y) == LcsRows(x, y, <<[c \in 1..(Len(y) + 1) |-> 0]>>)

\* a read of dp[r][c]
DpAt(table, r, c) == table[r + 1][c + 1]

DiffLine(type, content, originalLineNo, newLineNo) ==
    [type |-> type, content |-> content,
     originalLineNo |-> originalLineNo, newLineNo |-> newLineNo]

DigitSeq == <<"0","1","2","3","4","5","6","7","8","9">>

\* the decimal digits of n >= 0, as a template literal writes a number
RECURSIVE NumberToString(_)
NumberToString(n) ==
    IF n < 10 THEN <<DigitSeq[n + 1]>>
    ELSE NumberToString(n \div 10) \o <<DigitSeq[(n % 10) + 1]>>

\* the content of the synthetic entry
ElidedContent(n) ==
    <<".", ".", ".", " ", "(">> \o NumberToString(n)
        \o <<" ","m","o","r","e"," ","l","i","n","e","s"," ","n","o","t"," ",
             "s","h","o","w","n"," ","i","n"," ","d","i","f","f",")">>

\* the backtracking loop moving to the neighbour with the smaller value
BacktrackOpToSmaller(x, y, table, r, c) ==
    IF r = 0 THEN [op |-> [i |-> 0, j |-> c], i |-> r, j |-> c - 1]
    ELSE IF c = 0 THEN [op |-> [i |-> r, j |-> 0], i |-> r - 1, j |-> c]
    ELSE IF x[r] = y[c] THEN [op |-> [i |-> r, j |-> c], i |-> r - 1, j |-> c - 1]
    ELSE IF DpAt(table, r - 1, c) < DpAt(table, r, c - 1)
    THEN [op |-> [i |-> r, j |-> -1], i |-> r - 1, j |-> c]
    ELSE [op |-> [i |-> -1, j |-> c], i |-> r, j |-> c - 1]

\* one iteration of the backtracking loop: the op pushed and the new i and j
BacktrackOp(x, y, table, r, c) ==
    IF r = 0 THEN [op |-> [i |-> 0, j |-> c], i |-> r, j |-> c - 1]
    ELSE IF c = 0 THEN [op |-> [i |-> r, j |-> 0], i |-> r - 1, j |-> c]
    ELSE IF x[r] = y[c] THEN [op |-> [i |-> r, j |-> c], i |-> r - 1, j |-> c - 1]
    ELSE IF DpAt(table, r - 1, c) >= DpAt(table, r, c - 1)
    THEN [op |-> [i |-> r, j |-> -1], i |-> r - 1, j |-> c]
    ELSE [op |-> [i |-> -1, j |-> c], i |-> r, j |-> c - 1]

\* the entries with an added line leaving the new-side counter where it is
EmitOpAddedNotCounted(x, y, op, origLine, newLine) ==
    LET added == [entry |-> DiffLine("added", y[op.j], <<>>, <<newLine>>),
                  origLine |-> origLine, newLine |-> newLine]
        removed == [entry |-> DiffLine("removed", x[op.i], <<origLine>>, <<>>),
                    origLine |-> origLine + 1, newLine |-> newLine]
        unchanged == [entry |-> DiffLine("unchanged", x[op.i], <<origLine>>, <<newLine>>),
                      origLine |-> origLine + 1, newLine |-> newLine + 1]
    IN  IF op.i = 0 /\ op.j > 0 THEN added
        ELSE IF op.j = 0 /\ op.i > 0 THEN removed
        ELSE IF op.j = -1 THEN removed
        ELSE IF op.i = -1 THEN added
        ELSE unchanged

\* the entry pushed for one op, with the counters after it
EmitOp(x, y, op, origLine, newLine) ==
    LET added == [entry |-> DiffLine("added", y[op.j], <<>>, <<newLine>>),
                  origLine |-> origLine, newLine |-> newLine + 1]
        removed == [entry |-> DiffLine("removed", x[op.i], <<origLine>>, <<>>),
                    origLine |-> origLine + 1, newLine |-> newLine]
        unchanged == [entry |-> DiffLine("unchanged", x[op.i], <<origLine>>, <<newLine>>),
                      origLine |-> origLine + 1, newLine |-> newLine + 1]
    IN  IF op.i = 0 /\ op.j > 0 THEN added
        ELSE IF op.j = 0 /\ op.i > 0 THEN removed
        ELSE IF op.j = -1 THEN removed
        ELSE IF op.i = -1 THEN added
        ELSE unchanged

\* for (const op of ops), from the k-th op on
RECURSIVE EmitFrom(_, _, _, _, _, _, _)
EmitFrom(x, y, rops, k, origLine, newLine, out) ==
    IF k > Len(rops) THEN out
    ELSE LET e == EmitOp(x, y, rops[k], origLine, newLine)
         IN  EmitFrom(x, y, rops, k + 1, e.origLine, e.newLine, Append(out, e.entry))

\* the elided entry decided on the original alone
WithElidedOriginalOnly(original, optimized, out) ==
    IF Len(original) > MAX_LINES
    THEN Append(out, DiffLine("unchanged",
                    ElidedContent(Len(original) - MAX_LINES), <<>>, <<>>))
    ELSE out

\* Append truncated lines as unchanged if file was cut
WithElided(original, optimized, out) ==
    IF Len(original) > MAX_LINES \/ Len(optimized) > MAX_LINES
    THEN Append(out, DiffLine("unchanged",
                    ElidedContent(Max2(Len(original), Len(optimized)) - MAX_LINES),
                    <<>>, <<>>))
    ELSE out

\* computeDiff entered: split, slice, build the table
DiffStart ==
    /\ diffPc = "Start"
    /\ aLines' = slice(split(diffOriginal), MAX_LINES)
    /\ bLines' = slice(split(diffOptimized), MAX_LINES)
    /\ dp' = lcs(aLines', bLines')
    /\ iBack' = Len(aLines')
    /\ jBack' = Len(bLines')
    /\ ops' = <<>>
    /\ diffPc' = "Backtrack"
    /\ UNCHANGED <<diffOriginal, diffOptimized, diff, stats, normVars, pairVars, restVars>>

\* the loop with a removal marker pushed and i left where it is
BacktrackStepRemovalStays ==
    /\ diffPc = "Backtrack"
    /\ iBack > 0 \/ jBack > 0
    /\ LET step == BacktrackOp(aLines, bLines, dp, iBack, jBack)
       IN  /\ ops' = Append(ops, step.op)
           /\ iBack' = IF step.op.j = -1 THEN iBack ELSE step.i
           /\ jBack' = step.j
    /\ UNCHANGED <<diffOriginal, diffOptimized, aLines, bLines, dp, diff, diffPc, stats, normVars, pairVars, restVars>>

\* one iteration of while (i > 0 || j > 0)
BacktrackStep ==
    /\ diffPc = "Backtrack"
    /\ iBack > 0 \/ jBack > 0
    /\ LET step == BacktrackOp(aLines, bLines, dp, iBack, jBack)
       IN  /\ ops' = Append(ops, step.op)
           /\ iBack' = step.i
           /\ jBack' = step.j
    /\ UNCHANGED <<diffOriginal, diffOptimized, aLines, bLines, dp, diff, diffPc, stats, normVars, pairVars, restVars>>

\* the entries emitted without ops.reverse()
EmitStepUnreversed ==
    /\ diffPc = "Backtrack"
    /\ ~(iBack > 0 \/ jBack > 0)
    /\ diff' = WithElided(split(diffOriginal), split(diffOptimized),
                          EmitFrom(aLines, bLines, ops, 1, 1, 1, <<>>))
    /\ diffPc' = "Done"
    /\ UNCHANGED <<diffOriginal, diffOptimized, aLines, bLines, dp, iBack, jBack, ops, stats, normVars, pairVars, restVars>>

\* the loop has ended: ops.reverse(), emit, append the elided entry, return
EmitStep ==
    /\ diffPc = "Backtrack"
    /\ ~(iBack > 0 \/ jBack > 0)
    /\ diff' = WithElided(split(diffOriginal), split(diffOptimized),
                          EmitFrom(aLines, bLines, Reverse(ops), 1, 1, 1, <<>>))
    /\ diffPc' = "Done"
    /\ UNCHANGED <<diffOriginal, diffOptimized, aLines, bLines, dp, iBack, jBack, ops, stats, normVars, pairVars, restVars>>

\* computeDiffStats with the percentage cut off instead of rounded
computeDiffStatsTruncated(d) ==
    LET added == Len(SelectSeq(d, LAMBDA e : e.type = "added"))
        removed == Len(SelectSeq(d, LAMBDA e : e.type = "removed"))
        unchanged == Len(SelectSeq(d, LAMBDA e : e.type = "unchanged"))
        total == added + removed + unchanged
    IN  [added |-> added, removed |-> removed, unchanged |-> unchanged,
         changePercent |-> IF total > 0 THEN ((added + removed) * 100) \div total ELSE 0]

\* computeDiffStats
computeDiffStats(d) ==
    LET added == Len(SelectSeq(d, LAMBDA e : e.type = "added"))
        removed == Len(SelectSeq(d, LAMBDA e : e.type = "removed"))
        unchanged == Len(SelectSeq(d, LAMBDA e : e.type = "unchanged"))
        total == added + removed + unchanged
    IN  [added |-> added, removed |-> removed, unchanged |-> unchanged,
         changePercent |-> IF total > 0 THEN RoundDiv((added + removed) * 100, total) ELSE 0]

\* computeDiffStats called: by the viewer on the diff it was returned, or on
\* a DiffLine[] given to it directly
StatsStep ==
    /\ diffPc \in {"Done", "Given"}
    /\ stats' = <<computeDiffStats(diff)>>
    /\ diffPc' = "Stats"
    /\ UNCHANGED <<diffOriginal, diffOptimized, aLines, bLines, dp, iBack, jBack, ops, diff,
                   normVars, pairVars, restVars>>

----------------------------------------------------------------------------
(* repairTruncatedCode called on a text, and again on what it returned.    *)

RepairCall ==
    /\ repairPc = "Start"
    /\ firstRepair' = <<repairTruncatedCode(repairCode)>>
    /\ repairPc' = "Repaired"
    /\ UNCHANGED <<repairCode, secondRepair, simVars, workerVars, normVars, pairVars, diffVars, sizeVars>>

RescanCall ==
    /\ repairPc = "Repaired"
    /\ secondRepair' = <<repairTruncatedCode(firstRepair[1].repaired)>>
    /\ repairPc' = "Rescanned"
    /\ UNCHANGED <<repairCode, firstRepair, simVars, workerVars, normVars, pairVars, diffVars, sizeVars>>

----------------------------------------------------------------------------
(* One call of calculateCodeSimilarity.                                    *)

SimilarityCall ==
    /\ simPc = "Start"
    /\ simScore' = <<calculateCodeSimilarity(simOriginal, simOptimized)>>
    /\ simPc' = "Done"
    /\ UNCHANGED <<simOriginal, simOptimized, repairVars, workerVars, normVars, pairVars, diffVars, sizeVars>>

----------------------------------------------------------------------------
(* Inputs.  A text is a sequence of lines of a small vocabulary, joined by *)
(* newlines; the model's output may also come wrapped in a fence, behind a *)
(* preamble or between backticks.                                          *)

\* the longest original and the longest output body, in lines
MaxLines == 3

\* the longest body that comes wrapped, in lines
MaxWrappedLines == 1

lnFunc   == <<"f","u","n","c","t","i","o","n"," ","s","u","m","(",")"," ","{">>
lnCall   == <<"g","(",")",";">>
lnClose  == <<"}">>
lnDots   == <<"x",".",".",".">>
lnPadded == <<" "," ","g","(",")",";"," ">>
lnProse  == <<"I","t"," ","i","s"," ","o","k",".">>

OrigLineSet == {lnFunc, lnCall, lnClose}

RawLineSet == OrigLineSet \cup {lnPadded, lnDots}

\* the texts of at most n lines over a vocabulary, the empty text included
TextsUpTo(lineSet, n) ==
    {<<>>} \cup UNION {{join(ls) : ls \in [1..k -> lineSet]} : k \in 1..n}

OrigCodes == TextsUpTo(OrigLineSet, MaxLines)

FencedText(body) == Fence \o <<"j","s","\n">> \o body \o <<"\n">> \o Fence

OpenFencedText(body) == Fence \o <<"\n">> \o body

PreambleText(body) == <<"O","u","t","p","u","t",":","\n">> \o body

InlineText(body) == <<Backtick>> \o body \o <<Backtick>>

ProseText(body) == lnProse \o <<"\n">> \o body

\* a text as the value of a JSON string: newline, quote, tab and backslash
\* escaped
RECURSIVE EscapeJson(_)
EscapeJson(text) ==
    IF text = <<>> THEN <<>>
    ELSE LET ch == Head(text)
         IN  (IF ch = "\n" THEN <<"\\", "n">>
              ELSE IF ch = "\t" THEN <<"\\", "t">>
              ELSE IF ch \in {"\"", "\\"} THEN <<"\\", ch>>
              ELSE <<ch>>) \o EscapeJson(Tail(text))

\* the object {"optimized_code":"..."} with the body as the field's value
JsonText(body) ==
    <<"{", "\"", "o","p","t","i","m","i","z","e","d","_","c","o","d","e", "\"", ":", "\"">>
        \o EscapeJson(body) \o <<"\"", "}">>

\* the bodies that come wrapped
WrappedBodies == TextsUpTo(RawLineSet, MaxWrappedLines)

RawTexts ==
    TextsUpTo(RawLineSet, MaxLines)
        \cup UNION {{FencedText(b), OpenFencedText(b), PreambleText(b), InlineText(b),
                        ProseText(b), JsonText(b)} :
                        b \in WrappedBodies}

Pattern(description, severity) ==
    [type |-> "pattern", description |-> description, severity |-> severity]

Optimization(action) ==
    [action |-> action, rationale |-> "rationale", expectedImpact |-> "impact"]

AnalysisOf(lang, patterns, optimizations, score) ==
    [language |-> lang, detected_patterns |-> patterns,
     possible_optimizations |-> optimizations, confidence_score |-> score]

Analyses ==
    {AnalysisOf("JavaScript", <<Pattern("Nested loop", "high")>>,
                <<Optimization("Use a hash map")>>, 906),
     AnalysisOf("C", <<>>, <<>>, 554)}

\* the calls not under way hold these
PairIdle ==
    /\ otherRawText = <<>>
    /\ otherResult = <<>>

NormIdle ==
    /\ rawText = <<>>
    /\ originalCode = <<>>
    /\ analysis = AnalysisOf("", <<>>, <<>>, 0)
    /\ language = ""
    /\ extracted = NullCode
    /\ parseWarning = <<>>
    /\ result = <<>>
    /\ pc = "Idle"
    /\ PairIdle

DiffIdle ==
    /\ diffOriginal = <<>>
    /\ diffOptimized = <<>>
    /\ aLines = <<>>
    /\ bLines = <<>>
    /\ dp = <<>>
    /\ iBack = 0
    /\ jBack = 0
    /\ ops = <<>>
    /\ diff = <<>>
    /\ diffPc = "Idle"
    /\ stats = <<>>

RepairIdle ==
    /\ repairCode = <<>>
    /\ firstRepair = <<>>
    /\ secondRepair = <<>>
    /\ repairPc = "Idle"

SimIdle ==
    /\ simOriginal = <<>>
    /\ simOptimized = <<>>
    /\ simScore = <<>>
    /\ simPc = "Idle"

WorkerIdle ==
    /\ modelLoaded = FALSE
    /\ cancelCurrent = 0
    /\ posted = <<>>
    /\ hpc = "Idle"
    /\ codeBlocks = 0
    /\ blockIdx = 0
    /\ combinedOutput = <<>>
    /\ gens = <<>>
    /\ timers = <<>>
    /\ awaited = 0
    /\ parsed = <<>>
    /\ subStageInterval = FALSE
    /\ received = [INIT |-> 0, START_OPTIMIZATION |-> 0, CANCEL_OPTIMIZATION |-> 0]
    /\ ticks = 0

SizeIdle ==
    /\ origCount = 0
    /\ optCount = 0
    /\ sizeOutcome = <<>>
    /\ sizePc = "Idle"

RestIdle ==
    /\ RepairIdle
    /\ SimIdle
    /\ WorkerIdle
    /\ SizeIdle

Init ==
    /\ DiffIdle
    /\ RestIdle
    /\ PairIdle
    /\ rawText \in RawTexts
    /\ originalCode \in OrigCodes
    /\ analysis \in Analyses
    /\ language = ""
    /\ extracted = NullCode
    /\ parseWarning = <<>>
    /\ result = <<>>
    /\ pc = "Start"

Next ==
    \/ ExtractStep
    \/ TruncationStep
    \/ SizeStep
    \/ ElementsStep
    \/ SimilarityStep
    \/ AcceptStep

Spec == Init /\ [][Next]_vars

\* the first call of a pair has returned: the second call is made, on the
\* other rawText
NextCall ==
    /\ Returned
    /\ otherResult = <<>>
    /\ otherResult' = result
    /\ otherRawText' = rawText
    /\ rawText' = otherRawText
    /\ extracted' = NullCode
    /\ parseWarning' = <<>>
    /\ result' = <<>>
    /\ pc' = "Start"
    /\ UNCHANGED <<originalCode, analysis, language, diffVars, restVars>>

\* both calls of a pair have returned
PairDone == Returned /\ otherResult # <<>>

\* the longest output of a pair of calls, in lines
PairMaxLines == 2

PairLineSet == {lnFunc, lnCall, lnClose, lnPadded}

PairRawTexts == TextsUpTo(PairLineSet, PairMaxLines)

\* the outputs of the second call
PairLineSet2 == {lnCall, lnClose}

PairRawTexts2 == TextsUpTo(PairLineSet2, PairMaxLines)

PairOrigCodes ==
    {join(<<lnCall, lnCall>>), join(<<lnCall, lnClose>>), join(<<lnFunc, lnCall, lnClose>>)}

\* confidence_score 0, 0.554, 0.906 and 1, with and without patterns and
\* suggested optimizations
PairAnalyses ==
    {AnalysisOf("JavaScript", <<Pattern("Nested loop", "high")>>,
                <<Optimization("Use a hash map")>>, 906),
     AnalysisOf("C", <<Pattern("Repeated scan", "medium")>>, <<>>, 554),
     AnalysisOf("Python", <<>>, <<Optimization("")>>, 1000),
     AnalysisOf("Java", <<>>, <<>>, 0)}

InitPair ==
    /\ DiffIdle
    /\ RestIdle
    /\ rawText \in PairRawTexts
    /\ otherRawText \in PairRawTexts2
    /\ originalCode \in PairOrigCodes
    /\ analysis \in PairAnalyses
    /\ language \in {"", "C"}
    /\ extracted = NullCode
    /\ parseWarning = <<>>
    /\ result = <<>>
    /\ otherResult = <<>>
    /\ pc = "Start"

NextPair ==
    \/ ExtractStep
    \/ TruncationStep
    \/ SizeStep
    \/ ElementsStep
    \/ SimilarityStep
    \/ AcceptStep
    \/ NextCall

SpecPair == InitPair /\ [][NextPair]_vars

\* the diff of two texts: originals over a, b, c and rewrites over a, x, c,
\* of up to one line more than the cap
DiffOrigLineSet == {<<"a">>, <<"b">>, <<"c">>}

DiffOptLineSet == {<<"a">>, <<"x">>, <<"c">>}

InitDiff ==
    /\ NormIdle
    /\ RestIdle
    /\ aLines = <<>>
    /\ bLines = <<>>
    /\ dp = <<>>
    /\ iBack = 0
    /\ jBack = 0
    /\ ops = <<>>
    /\ diff = <<>>
    /\ stats = <<>>
    /\ \/ /\ diffPc = "Start"
          /\ diffOriginal \in TextsUpTo(DiffOrigLineSet, MAX_LINES + 1)
          /\ diffOptimized \in TextsUpTo(DiffOptLineSet, MAX_LINES + 1)
       \* computeDiffStats([]): no call of computeDiff came before
       \/ /\ diffPc = "Given"
          /\ diffOriginal = <<>>
          /\ diffOptimized = <<>>

NextDiff ==
    \/ DiffStart
    \/ BacktrackStep
    \/ EmitStep
    \/ StatsStep

SpecDiff == InitDiff /\ [][NextDiff]_vars

\* computeDiff is called, by the viewer, with an original and a candidate
DiffCall ==
    /\ diffPc = "Idle"
    /\ diffOriginal' \in TextsUpTo(DiffOrigLineSet, MAX_LINES + 1)
    /\ diffOptimized' \in TextsUpTo(DiffOptLineSet, MAX_LINES + 1)
    /\ diffPc' = "Start"
    /\ UNCHANGED <<aLines, bLines, dp, iBack, jBack, ops, diff, stats, normVars, pairVars,
                   restVars>>

\* no call has been made yet
InitDiffFair ==
    /\ NormIdle
    /\ RestIdle
    /\ DiffIdle

NextDiffFair ==
    \/ DiffCall
    \/ DiffStart
    \/ BacktrackStep
    \/ EmitStep
    \/ StatsStep

\* a call of computeDiff is synchronous code: once made, each of its steps is
\* taken when it is the next one.  DiffStart is enabled exactly when diffPc
\* is "Start" (its other conjuncts are assignments), so its weak fairness is
\* written without ENABLED: the call does not stay at "Start" for ever.
DiffFairness ==
    /\ []<>(diffPc # "Start")
    /\ WF_vars(BacktrackStep)
    /\ WF_vars(EmitStep)

SpecDiffFair == InitDiffFair /\ [][NextDiffFair]_vars /\ DiffFairness

\* the texts given to repairTruncatedCode: every string of brackets, quotes,
\* a backslash and a blank of up to MaxRepairLen characters
MaxRepairLen == 4

RepairChars == {"{", "(", "}", "\"", "\\", " "}

StringsUpTo(chars, n) == UNION {[1..k -> chars] : k \in 0..n}

InitRepair ==
    /\ NormIdle
    /\ DiffIdle
    /\ SimIdle
    /\ WorkerIdle
    /\ SizeIdle
    /\ repairCode \in StringsUpTo(RepairChars, MaxRepairLen)
    /\ firstRepair = <<>>
    /\ secondRepair = <<>>
    /\ repairPc = "Start"

NextRepair ==
    \/ RepairCall
    \/ RescanCall

SpecRepair == InitRepair /\ [][NextRepair]_vars

\* the texts compared: up to MaxSimLines lines, short, long, blank or padded
MaxSimLines == 2

lnBlank == <<" ">>

\* a long line that holds the first ten characters of lnFunc, a line of
\* exactly these ten characters, and a long line that starts otherwise
lnFuncArg == <<"f","u","n","c","t","i","o","n"," ","s","u","m","(","a",")"," ","{">>
lnTen == <<"f","u","n","c","t","i","o","n"," ","s">>
lnMax == <<"f","u","n","c","t","i","o","n"," ","m","a","x","(",")"," ","{","}">>

SimLineSet == {lnCall, lnPadded, lnFunc, lnBlank, <<>>, lnFuncArg, lnTen, lnMax}

InitSimilarity ==
    /\ NormIdle
    /\ DiffIdle
    /\ RepairIdle
    /\ WorkerIdle
    /\ SizeIdle
    /\ simOriginal \in TextsUpTo(SimLineSet, MaxSimLines)
    /\ simOptimized \in TextsUpTo(SimLineSet, MaxSimLines)
    /\ simScore = <<>>
    /\ simPc = "Start"

NextSimilarity == SimilarityCall

SpecSimilarity == InitSimilarity /\ [][NextSimilarity]_vars

----------------------------------------------------------------------------
(* The size check and the length ratio of the similarity score: calls of  *)
(* normalizeLLMOutput on texts told apart by their number of meaningful    *)
(* lines only, and the size check of step 3 on given counts, which reach   *)
(* the three thresholds.                                                   *)

\* the most lines of an original and of a candidate text
MaxOrigLines == 12
MaxOptLines == 17

\* the most meaningful lines of a counted original (the last threshold
\* starts at 41) and of a counted candidate (0.40 * 41 lies below 17)
MaxOrigMeaningful == 41
MaxOptMeaningful == 17

lnComment == <<"/", "/", " ", "c">>

\* a short meaningful line
lnStmt == <<"g">>

\* n times the line g
Calls(n) == [k \in 1..n |-> lnStmt]

\* a text of n meaningful lines after the lines of head
SizedText(head, n) == join(head \o Calls(n))

\* the lines before the meaningful ones: none, a lone brace, a comment
SizedHeads == {<<>>, <<lnClose>>, <<lnComment>>}

\* const sizeThreshold ... if (meaningfulRatio < sizeThreshold) on the counts
\* origCount and optCount in place of countMeaningfulLines of two texts
SizeCheckCall ==
    /\ sizePc = "Start"
    /\ sizeOutcome' =
          IF SizeCheckFails(origCount, optCount)
          THEN <<WarnSize(optCount, origCount)>>
          ELSE <<>>
    /\ sizePc' = "Done"
    /\ UNCHANGED <<origCount, optCount, normVars, pairVars, diffVars, repairVars, simVars,
                   workerVars>>

InitSize ==
    /\ DiffIdle
    /\ RepairIdle
    /\ SimIdle
    /\ WorkerIdle
    /\ \/ /\ SizeIdle
          /\ PairIdle
          /\ \E head \in SizedHeads, n \in 0..MaxOptLines : rawText = SizedText(head, n)
          /\ \E head \in {<<>>, <<lnClose>>}, n \in 0..MaxOrigLines :
                originalCode = SizedText(head, n)
          /\ analysis = AnalysisOf("JavaScript", <<>>, <<>>, 906)
          /\ language = ""
          /\ extracted = NullCode
          /\ parseWarning = <<>>
          /\ result = <<>>
          /\ pc = "Start"
       \/ /\ NormIdle
          /\ origCount \in 0..MaxOrigMeaningful
          /\ optCount \in 0..MaxOptMeaningful
          /\ sizeOutcome = <<>>
          /\ sizePc = "Start"

NextSize == Next \/ SizeCheckCall

SpecSize == InitSize /\ [][NextSize]_vars

----------------------------------------------------------------------------
(* Calls of normalizeLLMOutput on texts whose lines declare variables,     *)
(* functions, classes and imports: the element preservation check.         *)

\* the most lines of an original and of a candidate
MaxElemOrigLines == 2
MaxElemOptLines == 2

\* a variable with a name of its own: let total = 0;
lnTotal == <<"l", "e", "t", " ", "t", "o", "t", "a", "l", " ", "=", " ", "0", ";">>

\* a variable named by a single lowercase letter: let q = 0;
lnLetter == <<"l", "e", "t", " ", "q", " ", "=", " ", "0", ";">>

\* a variable with one of the conventional short names: var tmp = 1;
lnTmp == <<"v", "a", "r", " ", "t", "m", "p", " ", "=", " ", "1", ";">>

\* a variable that is a function as well: const add = (a) => a;
lnArrow == <<"c", "o", "n", "s", "t", " ", "a", "d", "d", " ", "=", " ", "(", "a", ")", " ", "=", ">", " ", "a", ";">>

\* a class: class Box {}
lnBox == <<"c", "l", "a", "s", "s", " ", "B", "o", "x", " ", "{", "}">>

\* an import: import fs from 'fs';
lnImport == <<"i", "m", "p", "o", "r", "t", " ", "f", "s", " ", "f", "r", "o", "m", " ", "'", "f", "s", "'", ";">>

\* lnMax, function max() {}, is a function declaration
ElemLineSet == {lnTotal, lnLetter, lnTmp, lnArrow, lnBox, lnImport, lnMax}

InitElements ==
    /\ DiffIdle
    /\ RestIdle
    /\ PairIdle
    /\ rawText \in TextsUpTo(ElemLineSet, MaxElemOptLines)
    /\ originalCode \in TextsUpTo(ElemLineSet, MaxElemOrigLines)
    /\ analysis = AnalysisOf("JavaScript", <<>>, <<>>, 906)
    /\ language = ""
    /\ extracted = NullCode
    /\ parseWarning = <<>>
    /\ result = <<>>
    /\ pc = "Start"

SpecElements == InitElements /\ [][Next]_vars

----------------------------------------------------------------------------
(* The optimizer worker (optimizer.worker.ts): the message handler, the    *)
(* calls of runLLMCall with their generations and timeout timers, and the  *)
(* sub-stage interval.  The handler runs to its next await in one step; a  *)
(* call of normalizeLLMOutput runs through the steps above with no other   *)
(* callback in between, as it does on the worker's single thread.          *)

\* const CHUNK_THRESHOLD = 3000 in the source, scaled down with the codes
CHUNK_THRESHOLD == 5

\* the largest analysis.chunks.length
MaxChunks == 2

\* the most tokens one generation streams
MaxTokens == 2

\* the most INIT and CANCEL_OPTIMIZATION messages the UI sends
MaxInits == 1

MaxCancels == 1

\* the most runs of the interval callback
MaxTicks == 1

\* the calls of runLLMCall one request can make: one for each block and one
\* for the retry
MaxCalls == MaxChunks + 1

Post(type, value) == [type |-> type, value |-> value]

\* a generation before TextGeneration.generateStream has resolved
NewGeneration == [status |-> "starting", cancelled |-> FALSE, output |-> <<>>, tokenCount |-> 0]

\* the handler is suspended at an await, or no handler is under way
AtAwait == hpc \in {"Idle", "InitAwait", "Call", "Yield", "RetryCall", "Done"}

\* the value of the 'done' message of the catch block
PipelineFallback(code, errMsg) ==
    [strategy       |-> "Fallback",
     confidence     |-> 0,
     explanation    |-> Msg("Optimization unavailable - safe fallback used. _", <<>>, <<errMsg>>),
     optimized_code |-> code,
     _parsed        |-> FALSE,
     _no_change     |-> TRUE,
     _parse_warning |-> <<Msg("Optimization unavailable - safe fallback used", <<>>, <<>>)>>]

RetryWarning == Msg("Required retry - initial attempt returned unchanged code", <<>>, <<>>)

\* useChunking ? analysis.chunks : [code], by its length
BlockCounts(code) == IF Len(code) >= CHUNK_THRESHOLD THEN 1..MaxChunks ELSE {1}

\* runLLMCall entered: the timeout timer is set and generateStream is called
runLLMCall ==
    /\ gens' = Append(gens, NewGeneration)
    /\ timers' = Append(timers, "armed")
    /\ awaited' = Len(gens) + 1

\* a catch block that logs the error and posts no result
CatchWithoutDone(errMsg, msgs) ==
    /\ cancelCurrent' = 0
    /\ posted' = posted \o msgs
    /\ hpc' = "Done"
    /\ awaited' = 0
    /\ subStageInterval' = FALSE

\* the catch block of START_OPTIMIZATION, after the finally blocks on the way
\* have posted msgs
Catch(errMsg, msgs) ==
    /\ cancelCurrent' = 0
    /\ posted' = posted \o msgs \o <<Post("done", PipelineFallback(originalCode, errMsg))>>
    /\ hpc' = "Done"
    /\ awaited' = 0
    /\ subStageInterval' = FALSE

\* normalizeLLMOutput(text, code, analysis, language) entered
Normalize(text) ==
    /\ rawText' = text
    /\ extracted' = NullCode
    /\ parseWarning' = <<>>
    /\ result' = <<>>
    /\ pc' = "Start"

\* the handler resumes with the output that the awaited runLLMCall returned
Resume(out) ==
    /\ awaited' = 0
    /\ IF hpc = "Call"
       THEN /\ combinedOutput' = combinedOutput \o out
            /\ IF blockIdx + 1 < codeBlocks
               THEN /\ blockIdx' = blockIdx + 1
                    /\ posted' = Append(posted, Post("stage", "Refining Optimization"))
                    /\ hpc' = "Yield"
                    /\ UNCHANGED <<subStageInterval, rawText, extracted, parseWarning, result, pc>>
               ELSE /\ subStageInterval' = FALSE
                    /\ posted' = posted \o <<Post("stream_idle", ""),
                                             Post("stage", "Finalizing Output")>>
                    /\ hpc' = "Normalize"
                    /\ Normalize(combinedOutput')
                    /\ UNCHANGED blockIdx
       ELSE /\ subStageInterval' = FALSE
            /\ posted' = posted \o <<Post("stream_idle", ""), Post("stage", "Finalizing Output")>>
            /\ hpc' = "RetryNormalize"
            /\ Normalize(out)
            /\ UNCHANGED <<combinedOutput, blockIdx>>

\* INIT received
RecvInit ==
    /\ hpc = "Idle"
    /\ received.INIT < MaxInits
    /\ received' = [received EXCEPT !.INIT = @ + 1]
    /\ IF modelLoaded
       THEN /\ posted' = Append(posted, Post("READY", ""))
            /\ UNCHANGED hpc
       ELSE /\ posted' = Append(posted, Post("status", "initializing"))
            /\ hpc' = "InitAwait"
    /\ UNCHANGED <<modelLoaded, cancelCurrent, codeBlocks, blockIdx, combinedOutput, gens,
                   timers, awaited, parsed, subStageInterval, ticks>>
    /\ UNCHANGED <<normVars, pairVars, diffVars, repairVars, simVars, sizeVars>>

\* await workerInitSDK() resolves
InitResolves ==
    /\ hpc = "InitAwait"
    /\ modelLoaded' = TRUE
    /\ posted' = posted \o <<Post("status", "loading_model"), Post("READY", "")>>
    /\ hpc' = "Idle"
    /\ UNCHANGED <<cancelCurrent, codeBlocks, blockIdx, combinedOutput, gens, timers, awaited,
                   parsed, subStageInterval, received, ticks>>
    /\ UNCHANGED <<normVars, pairVars, diffVars, repairVars, simVars, sizeVars>>

\* await workerInitSDK() rejects, before or after the model began to load
InitRejects ==
    /\ hpc = "InitAwait"
    /\ \E loading \in BOOLEAN :
          posted' = posted \o (IF loading THEN <<Post("status", "loading_model")>> ELSE <<>>)
                           \o <<Post("init-error", "")>>
    /\ hpc' = "Idle"
    /\ UNCHANGED <<modelLoaded, cancelCurrent, codeBlocks, blockIdx, combinedOutput, gens,
                   timers, awaited, parsed, subStageInterval, received, ticks>>
    /\ UNCHANGED <<normVars, pairVars, diffVars, repairVars, simVars, sizeVars>>

\* the codes submitted and the tokens a generation streams
WorkerCodes == {lnCall, join(<<lnCall, lnClose>>)}

WorkerTokens == {lnCall \o <<"\n">>}

\* START_OPTIMIZATION received: up to the first await of the handler
RecvStart ==
    /\ hpc \in {"Idle", "InitAwait"}
    /\ received.START_OPTIMIZATION = 0
    /\ received' = [received EXCEPT !.START_OPTIMIZATION = @ + 1]
    /\ IF ~modelLoaded
       THEN /\ posted' = Append(posted, Post("error", "Model is still loading."))
            /\ UNCHANGED <<cancelCurrent, hpc, codeBlocks, blockIdx, combinedOutput, gens,
                           timers, awaited, subStageInterval, originalCode, analysis, language>>
       ELSE \E code \in WorkerCodes, an \in Analyses :
               /\ originalCode' = code
               /\ language' = an.language
               /\ \/ \* analyzeCode throws
                     /\ posted' = posted \o <<Post("stage", "Understanding Code"),
                                              Post("done", PipelineFallback(code, "analysis failed"))>>
                     /\ cancelCurrent' = 0
                     /\ hpc' = "Done"
                     /\ UNCHANGED <<analysis, codeBlocks, blockIdx, combinedOutput, gens,
                                    timers, awaited, subStageInterval>>
                  \/ \E n \in BlockCounts(code) :
                        /\ analysis' = an
                        /\ codeBlocks' = n
                        /\ blockIdx' = 0
                        /\ combinedOutput' = <<>>
                        /\ posted' = posted \o <<Post("stage", "Understanding Code"),
                                                 Post("analysis", an),
                                                 Post("stage", "Optimizing"),
                                                 Post("substage", "")>>
                                            \o (IF n > 1 THEN <<Post("chunk_progress", 1)>> ELSE <<>>)
                        /\ subStageInterval' = TRUE
                        /\ runLLMCall
                        /\ hpc' = "Call"
                        /\ UNCHANGED cancelCurrent
    /\ UNCHANGED <<modelLoaded, parsed, ticks, rawText, extracted, parseWarning, result, pc>>
    /\ UNCHANGED <<pairVars, diffVars, repairVars, simVars, sizeVars>>

\* CANCEL_OPTIMIZATION received
RecvCancel ==
    /\ AtAwait
    /\ received.CANCEL_OPTIMIZATION < MaxCancels
    /\ received' = [received EXCEPT !.CANCEL_OPTIMIZATION = @ + 1]
    /\ IF cancelCurrent # 0
       THEN /\ gens' = [gens EXCEPT ![cancelCurrent].cancelled = TRUE]
            /\ cancelCurrent' = 0
       ELSE UNCHANGED <<gens, cancelCurrent>>
    /\ UNCHANGED <<modelLoaded, posted, hpc, codeBlocks, blockIdx, combinedOutput, timers,
                   awaited, parsed, subStageInterval, ticks>>
    /\ UNCHANGED <<normVars, pairVars, diffVars, repairVars, simVars, sizeVars>>

\* await TextGeneration.generateStream(...) resolves in the coroutine of call k
StreamOpens(k) ==
    /\ AtAwait
    /\ gens[k].status = "starting"
    /\ gens' = [gens EXCEPT ![k].status = "streaming"]
    /\ cancelCurrent' = k
    /\ UNCHANGED <<modelLoaded, posted, hpc, codeBlocks, blockIdx, combinedOutput, timers,
                   awaited, parsed, subStageInterval, received, ticks>>
    /\ UNCHANGED <<normVars, pairVars, diffVars, repairVars, simVars, sizeVars>>

\* one iteration of for await (const token of stream): a generation that was
\* cancelled yields no further token
Token(k) ==
    /\ AtAwait
    /\ gens[k].status = "streaming"
    /\ ~gens[k].cancelled
    /\ gens[k].tokenCount < MaxTokens
    /\ \E token \in WorkerTokens :
          /\ gens' = [gens EXCEPT ![k].output = @ \o token, ![k].tokenCount = @ + 1]
          /\ posted' = posted
                \o (IF gens[k].tokenCount = 0 THEN <<Post("stream_active", "")>> ELSE <<>>)
                \o <<Post("chunk", token)>>
    /\ UNCHANGED <<modelLoaded, cancelCurrent, hpc, codeBlocks, blockIdx, combinedOutput, timers,
                   awaited, parsed, subStageInterval, received, ticks>>
    /\ UNCHANGED <<normVars, pairVars, diffVars, repairVars, simVars, sizeVars>>

\* the stream of call k ends: the coroutine goes on to await resultPromise
StreamEnds(k) ==
    /\ AtAwait
    /\ gens[k].status = "streaming"
    /\ gens' = [gens EXCEPT ![k].status = "drained"]
    /\ UNCHANGED <<modelLoaded, cancelCurrent, posted, hpc, codeBlocks, blockIdx, combinedOutput,
                   timers, awaited, parsed, subStageInterval, received, ticks>>
    /\ UNCHANGED <<normVars, pairVars, diffVars, repairVars, simVars, sizeVars>>

\* await resultPromise resolves: cancelCurrent = null, the coroutine ends, and
\* a handler that awaits this call resumes with its output
ResultResolves(k) ==
    /\ AtAwait
    /\ gens[k].status = "drained"
    /\ gens' = [gens EXCEPT ![k].status = "finished"]
    /\ cancelCurrent' = 0
    /\ IF awaited = k
       THEN Resume(gens[k].output)
       ELSE UNCHANGED <<posted, hpc, blockIdx, combinedOutput, awaited, subStageInterval,
                        rawText, extracted, parseWarning, result, pc>>
    /\ UNCHANGED <<modelLoaded, codeBlocks, timers, parsed, received, ticks>>
    /\ UNCHANGED <<originalCode, analysis, language, pairVars, diffVars, repairVars, simVars, sizeVars>>

\* generateStream, the stream or resultPromise rejects: the coroutine of call k
\* ends, and a handler that awaits this call goes to its catch block
GenerationFails(k) ==
    /\ AtAwait
    /\ gens[k].status \in {"starting", "streaming", "drained"}
    /\ gens' = [gens EXCEPT ![k].status = "failed"]
    /\ IF awaited = k
       THEN Catch("generation failed", <<Post("stream_idle", "")>>)
       ELSE UNCHANGED <<cancelCurrent, posted, hpc, awaited, subStageInterval>>
    /\ UNCHANGED <<modelLoaded, codeBlocks, blockIdx, combinedOutput, timers, parsed, received,
                   ticks>>
    /\ UNCHANGED <<normVars, pairVars, diffVars, repairVars, simVars, sizeVars>>

\* the timer of call k fires: Promise.race rejects if it is still awaited, and
\* the handler goes to its catch block; the coroutine of the call goes on
TimerFires(k) ==
    /\ AtAwait
    /\ k \in 1..Len(timers)
    /\ timers[k] = "armed"
    /\ IF awaited = k
       THEN /\ timers' = [timers EXCEPT ![k] = "timedOut"]
            /\ Catch("LLM timed out after 120s", <<Post("stream_idle", "")>>)
       ELSE /\ timers' = [timers EXCEPT ![k] = "fired"]
            /\ UNCHANGED <<cancelCurrent, posted, hpc, awaited, subStageInterval>>
    /\ UNCHANGED <<modelLoaded, codeBlocks, blockIdx, combinedOutput, gens, parsed, received,
                   ticks>>
    /\ UNCHANGED <<normVars, pairVars, diffVars, repairVars, simVars, sizeVars>>

\* the callback of a sub-stage interval runs
SubstageTick ==
    /\ AtAwait
    /\ subStageInterval
    /\ ticks < MaxTicks
    /\ ticks' = ticks + 1
    /\ posted' = Append(posted, Post("substage", ""))
    /\ UNCHANGED <<modelLoaded, cancelCurrent, hpc, codeBlocks, blockIdx, combinedOutput, gens,
                   timers, awaited, parsed, subStageInterval, received>>
    /\ UNCHANGED <<normVars, pairVars, diffVars, repairVars, simVars, sizeVars>>

\* the yield between two blocks is over: the next block's call is made
YieldResumes ==
    /\ hpc = "Yield"
    /\ posted' = Append(posted, Post("chunk_progress", blockIdx + 1))
    /\ runLLMCall
    /\ hpc' = "Call"
    /\ UNCHANGED <<modelLoaded, cancelCurrent, codeBlocks, blockIdx, combinedOutput, parsed,
                   subStageInterval, received, ticks>>
    /\ UNCHANGED <<normVars, pairVars, diffVars, repairVars, simVars, sizeVars>>

\* normalizeLLMOutput has returned parsed: the retry is made, or the result
\* is posted
AfterNormalize ==
    /\ hpc = "Normalize"
    /\ Returned
    /\ parsed' = result
    /\ IF result[1]._no_change /\ Len(analysis.detected_patterns) > 0
       THEN /\ posted' = posted \o <<Post("stage", "Optimizing"),
                                     Post("substage", "Retrying with stronger instructions..."),
                                     Post("retry_clear", "")>>
            /\ subStageInterval' = TRUE
            /\ runLLMCall
            /\ hpc' = "RetryCall"
       ELSE /\ posted' = Append(posted, Post("done", result[1]))
            /\ hpc' = "Done"
            /\ UNCHANGED <<subStageInterval, gens, timers, awaited>>
    /\ UNCHANGED <<modelLoaded, cancelCurrent, codeBlocks, blockIdx, combinedOutput, received,
                   ticks>>
    /\ UNCHANGED <<normVars, pairVars, diffVars, repairVars, simVars, sizeVars>>

\* normalizeLLMOutput has returned retryParsed: the result is posted
AfterRetryNormalize ==
    /\ hpc = "RetryNormalize"
    /\ Returned
    /\ parsed' = IF ~result[1]._no_change
                 THEN <<[result[1] EXCEPT !._parse_warning = <<RetryWarning>>]>>
                 ELSE parsed
    /\ posted' = Append(posted, Post("done", parsed'[1]))
    /\ hpc' = "Done"
    /\ UNCHANGED <<modelLoaded, cancelCurrent, codeBlocks, blockIdx, combinedOutput, gens,
                   timers, awaited, subStageInterval, received, ticks>>
    /\ UNCHANGED <<normVars, pairVars, diffVars, repairVars, simVars, sizeVars>>

InitWorker ==
    /\ NormIdle
    /\ DiffIdle
    /\ RepairIdle
    /\ SimIdle
    /\ WorkerIdle
    /\ SizeIdle

\* the handler goes on after a yield and after a call of normalizeLLMOutput
HandlerResumes ==
    \/ YieldResumes
    \/ AfterNormalize
    \/ AfterRetryNormalize

\* the steps of a call of normalizeLLMOutput
NormalizeStep ==
    \/ ExtractStep
    \/ TruncationStep
    \/ SizeStep
    \/ ElementsStep
    \/ SimilarityStep
    \/ AcceptStep

\* a call of normalizeLLMOutput has been entered and has not returned
NormalizeUnderWay ==
    pc \in {"Start", "Extracted", "TruncationChecked", "SizeChecked", "ElementsChecked",
            "SimilarityChecked"}

NextWorker ==
    \/ RecvInit
    \/ InitResolves
    \/ InitRejects
    \/ RecvStart
    \/ RecvCancel
    \/ \E k \in 1..Len(gens) : StreamOpens(k)
    \/ \E k \in 1..Len(gens) : Token(k)
    \/ \E k \in 1..Len(gens) : StreamEnds(k)
    \/ \E k \in 1..Len(gens) : ResultResolves(k)
    \/ \E k \in 1..Len(gens) : GenerationFails(k)
    \/ \E k \in 1..Len(gens) : TimerFires(k)
    \/ SubstageTick
    \/ HandlerResumes
    \/ NormalizeStep

\* the event loop runs the handler when it can go on and fires a timer that is
\* set; normalizeLLMOutput is synchronous code, and a call under way runs to
\* its return (the weak fairness of NormalizeStep: one of its steps is enabled
\* exactly while a call is under way)
WorkerFairness ==
    /\ WF_vars(HandlerResumes)
    /\ \A k \in 1..MaxCalls : WF_vars(TimerFires(k))
    /\ []<>(~NormalizeUnderWay)

SpecWorker == InitWorker /\ [][NextWorker]_vars /\ WorkerFairness

----------------------------------------------------------------------------
(* Properties of normalizeLLMOutput, checked under Spec.                   *)

\* C1: for every rawText, originalCode and analysis, a result whose _parsed
\* is false has optimized_code exactly originalCode, confidence 0, _no_change
\* true and a _parse_warning.
C1_FallbackPreservesOriginal ==
    Returned =>
        (result[1]._parsed = FALSE =>
            /\ result[1].optimized_code = originalCode
            /\ result[1].confidence = 0
            /\ result[1]._no_change = TRUE
            /\ Len(result[1]._parse_warning) = 1)

\* C1: a candidate that differs from the original was extracted and rejected,
\* under an analysis with a positive confidence_score.
C1_Witness ==
    /\ pc = "Fallback"
    /\ result[1]._parsed = FALSE
    /\ ~extracted.isNull
    /\ extracted.text # originalCode
    /\ analysis.confidence_score > 0

\* C2: normalizeLLMOutput never ends in an error, whatever the rawText: the
\* call is always at one of its steps or has returned one result; a Fallback
\* carries the warning of the one rejection condition that holds (nothing
\* extracted, truncated and not repaired, meaningful-line ratio below the
\* threshold, named elements missing, similarity below 50), and an accepted
\* result is one for which none of them holds.
C2_EveryRejectionFallsBackWithItsReason ==
    LET cand == extractCode(rawText)
        origMeaningful == countMeaningfulLines(originalCode)
        optMeaningful == countMeaningfulLines(extracted.text)
        similarity == calculateCodeSimilarity(originalCode, extracted.text)
        orig == extractCriticalElements(originalCode)
        opt == extractCriticalElements(extracted.text)
        Dropped(name) ==
            \/ Has(orig.variables, name) /\ ~Has(opt.variables, name) /\ ~isTrivialVar(name)
            \/ Has(orig.functions, name) /\ ~Has(opt.functions, name)
            \/ Has(orig.classes, name) /\ ~Has(opt.classes, name)
            \/ Has(orig.imports, name) /\ ~Has(opt.imports, name)
        AllNames == {orig.variables[k] : k \in 1..Len(orig.variables)}
                        \cup {orig.functions[k] : k \in 1..Len(orig.functions)}
                        \cup {orig.classes[k] : k \in 1..Len(orig.classes)}
                        \cup {orig.imports[k] : k \in 1..Len(orig.imports)}
    IN  /\ pc \in {"Start", "Extracted", "TruncationChecked", "SizeChecked",
                   "ElementsChecked", "SimilarityChecked", "Accepted", "Fallback"}
        /\ Returned <=> Len(result) = 1
        /\ pc = "Fallback" =>
              LET w == result[1]._parse_warning[1]
              IN  /\ result[1]._parsed = FALSE
                  /\ result[1].explanation = w
                  /\ \/ /\ w = WarnNoCode
                        /\ cand.isNull \/ cand.text = <<>>
                     \/ /\ w = WarnTruncated
                        /\ ~cand.isNull
                        /\ isCodeTruncated(cand.text)
                        /\ ~repairTruncatedCode(cand.text).wasRepaired
                     \/ /\ w = WarnSize(optMeaningful, origMeaningful)
                        /\ origMeaningful > 0
                        /\ optMeaningful * 100 < sizeThreshold(origMeaningful) * origMeaningful
                     \/ /\ w.template = WarnElements(<<>>).template
                        /\ w.parts # <<>>
                        /\ \A k \in 1..Len(w.parts) :
                              /\ w.parts[k].count = Len(w.parts[k].names)
                              /\ w.parts[k].count > 0
                              /\ \A n \in 1..Len(w.parts[k].names) : Dropped(w.parts[k].names[n])
                     \/ /\ w = WarnSimilarity(similarity)
                        /\ similarity < 50
        /\ pc = "Accepted" =>
              /\ result[1]._parsed = TRUE
              /\ ~cand.isNull /\ cand.text # <<>>
              /\ ~isCodeTruncated(cand.text) \/ repairTruncatedCode(cand.text).wasRepaired
              /\ ~(origMeaningful > 0
                     /\ optMeaningful * 100 < sizeThreshold(origMeaningful) * origMeaningful)
              /\ \A name \in AllNames : ~Dropped(name)
              /\ similarity >= 50

\* C2: a candidate that kept every named element was rejected for its
\* similarity, the last of the rejection conditions.
C2_Witness ==
    /\ pc = "Fallback"
    /\ ~extracted.isNull
    /\ result[1]._parse_warning[1].template = WarnSimilarity(0).template
    /\ extractCriticalElements(originalCode).functions # <<>>

\* C3, as stated: for every code string X and every analysis,
\* normalizeLLMOutput(X, X, analysis) has _no_change true and confidence 100,
\* X empty, ending in an opening bracket or in '...', or unbalanced included.
C3_SameTextIsNoChange ==
    (Returned /\ rawText = originalCode) =>
        /\ result[1]._no_change = TRUE
        /\ result[1].confidence = 100

\* C3, amended: for every X that is taken whole as the candidate (extractCode
\* returns X trimmed), that isCodeTruncated does not flag and in which
\* repairTruncatedCode finds no bracket left open, normalizeLLMOutput(X, X,
\* analysis) is accepted with _no_change true and confidence 100.
C3_CleanSameTextIsNoChange ==
    (/\ Returned
     /\ rawText = originalCode
     /\ extractCode(rawText) = SomeCode(trim(rawText))
     /\ ~isCodeTruncated(trim(rawText))
     /\ ~repairTruncatedCode(trim(rawText)).wasRepaired) =>
        /\ pc = "Accepted"
        /\ result[1]._parsed = TRUE
        /\ result[1]._no_change = TRUE
        /\ result[1].confidence = 100
        /\ result[1].optimized_code = trim(originalCode)

\* C3: a balanced function was given back as it is and accepted unchanged.
C3_Witness ==
    /\ pc = "Accepted"
    /\ rawText = originalCode
    /\ extractCriticalElements(originalCode).functions # <<>>
    /\ result[1]._no_change = TRUE
    /\ result[1].confidence = 100

C5_NoChangeWhenExtractedEqualsOriginal ==
    LET cand == extractCode(rawText)
    IN  (Returned /\ ~cand.isNull /\ normalizeCode(cand.text) = normalizeCode(originalCode)) =>
            result[1]._no_change = TRUE

\* C5, amended: _no_change is true whenever the candidate as it stands after
\* the repair step (the extracted text, with the closing brackets the repair
\* appended) equals the original after normalization; in an accepted result
\* it is true only then.
C5_NoChangeWhenRepairedCandidateEqualsOriginal ==
    LET same == normalizeCode(extracted.text) = normalizeCode(originalCode)
    IN  /\ (Returned /\ ~extracted.isNull /\ same) => result[1]._no_change = TRUE
        /\ (pc = "Accepted" /\ result[1]._no_change = TRUE) => same

\* C5: a candidate that differs from the original in white space only was
\* accepted as no change.
C5_Witness ==
    /\ pc = "Accepted"
    /\ extracted.text # originalCode
    /\ extracted.text # trim(originalCode)
    /\ normalizeCode(extracted.text) = normalizeCode(originalCode)
    /\ result[1]._no_change = TRUE

----------------------------------------------------------------------------
(* Properties of two calls on the same original and analysis, checked      *)
(* under SpecPair.                                                         *)

C7_StrategyAndExplanationFromAnalysisOnly ==
    (/\ PairDone
     /\ result[1]._parsed /\ ~result[1]._no_change
     /\ otherResult[1]._parsed /\ ~otherResult[1]._no_change) =>
        /\ result[1].strategy = otherResult[1].strategy
        /\ result[1].explanation = otherResult[1].explanation

\* C7, amended: for the same originalCode and analysis, any two raw outputs
\* that are both accepted with a change yield identical strategy, and
\* explanations that differ at most in the similarity percentage they quote:
\* each quotes the similarity of its own accepted code to the original, and
\* the explanations are identical when these similarities are equal.
C7_StrategyFromAnalysisExplanationQuotesSimilarity ==
    (/\ PairDone
     /\ result[1]._parsed /\ ~result[1]._no_change
     /\ otherResult[1]._parsed /\ ~otherResult[1]._no_change) =>
        LET sim1 == calculateCodeSimilarity(originalCode, result[1].optimized_code)
            sim2 == calculateCodeSimilarity(originalCode, otherResult[1].optimized_code)
        IN  /\ result[1].strategy = otherResult[1].strategy
            /\ result[1].explanation.template = otherResult[1].explanation.template
            /\ result[1].explanation.parts = otherResult[1].explanation.parts
            /\ result[1].explanation.nums = <<sim1>>
            /\ otherResult[1].explanation.nums = <<sim2>>
            /\ sim1 = sim2 => result[1].explanation = otherResult[1].explanation

\* C7: two different texts were accepted with a change at the same
\* similarity, under an analysis that suggests an optimization.
C7_Witness ==
    /\ PairDone
    /\ result[1]._parsed /\ ~result[1]._no_change
    /\ otherResult[1]._parsed /\ ~otherResult[1]._no_change
    /\ result[1].optimized_code # otherResult[1].optimized_code
    /\ result[1].explanation = otherResult[1].explanation
    /\ result[1].strategy = "Use a hash map"

----------------------------------------------------------------------------
(* Properties of computeDiff, checked under SpecDiff.                      *)

\* the entries that carry a number on the original side, on the new side
OriginalNumbered(d) == SelectSeq(d, LAMBDA e : e.originalLineNo # <<>>)

NewNumbered(d) == SelectSeq(d, LAMBDA e : e.newLineNo # <<>>)

\* the numbers present on each side are 1, 2, 3, ... along the sequence
NumberedInOrder(d) ==
    /\ \A k \in 1..Len(OriginalNumbered(d)) : OriginalNumbered(d)[k].originalLineNo = <<k>>
    /\ \A k \in 1..Len(NewNumbered(d)) : NewNumbered(d)[k].newLineNo = <<k>>

\* originalLineNo is non-null exactly for removed and unchanged, newLineNo
\* exactly for added and unchanged
NumbersFitType(e) ==
    /\ e.originalLineNo # <<>> <=> e.type \in {"removed", "unchanged"}
    /\ e.newLineNo # <<>> <=> e.type \in {"added", "unchanged"}

\* either input has more lines than the cap
CutShort == Len(split(diffOriginal)) > MAX_LINES \/ Len(split(diffOptimized)) > MAX_LINES

\* C8, as stated: every entry of every computeDiff result has originalLineNo
\* non-null exactly when its type is removed or unchanged and newLineNo
\* non-null exactly when its type is added or unchanged, and the non-null
\* numbers of each side are 1, 2, 3, ... along the sequence, for inputs of any
\* length, those longer than the cap included.
C8_LineNumbersFitEveryEntry ==
    diffPc = "Done" =>
        /\ \A k \in 1..Len(diff) : NumbersFitType(diff[k])
        /\ NumberedInOrder(diff)

\* C8, amended: the same holds of every entry but the synthetic one that ends
\* the result when an input is longer than the cap; that entry is of type
\* unchanged and has both line numbers null.
C8_LineNumbersFitAlignedEntries ==
    diffPc = "Done" =>
        /\ \A k \in 1..Len(diff) : (CutShort /\ k = Len(diff)) \/ NumbersFitType(diff[k])
        /\ NumberedInOrder(diff)
        /\ CutShort =>
              /\ diff[Len(diff)].type = "unchanged"
              /\ diff[Len(diff)].originalLineNo = <<>>
              /\ diff[Len(diff)].newLineNo = <<>>

\* C8: the diff of two inputs longer than the cap, with lines added, removed
\* and unchanged.
C8_Witness ==
    /\ diffPc = "Done"
    /\ Len(split(diffOriginal)) > MAX_LINES
    /\ Len(split(diffOptimized)) > MAX_LINES
    /\ \E k \in 1..Len(diff) : diff[k].type = "added"
    /\ \E k \in 1..Len(diff) : diff[k].type = "removed"
    /\ \E k \in 1..(Len(diff) - 1) : diff[k].type = "unchanged"

\* C9: when the candidate differs from the original by replacing one line b
\* with a line x, neither occurring elsewhere, computeDiff emits the unchanged
\* lines before it, then the removed entry for b, then the added entry for x,
\* then the unchanged lines after it; for a,b,c versus a,x,c: unchanged a
\* (1,1), removed b (2,null), added x (null,2), unchanged c (3,3).
C9_ReplacedLineRemovedThenAdded ==
    LET x == split(diffOriginal)
        y == split(diffOptimized)
        K == {k \in 1..Min2(Len(x), Len(y)) : x[k] # y[k]}
        at == CHOOSE k \in K : TRUE
    IN  (/\ diffPc = "Done"
         /\ Len(x) = Len(y)
         /\ Len(x) <= MAX_LINES
         /\ Cardinality(K) = 1
         /\ \A k \in 1..Len(x) : y[k] # x[at] /\ x[k] # y[at]) =>
            diff = [k \in 1..(Len(x) + 1) |->
                        IF k < at THEN DiffLine("unchanged", x[k], <<k>>, <<k>>)
                        ELSE IF k = at THEN DiffLine("removed", x[at], <<at>>, <<>>)
                        ELSE IF k = at + 1 THEN DiffLine("added", y[at], <<>>, <<at>>)
                        ELSE DiffLine("unchanged", x[k - 1], <<k - 1>>, <<k - 1>>)]

\* C9: the diff of a,b,c against a,x,c has been computed; it is unchanged a
\* (1,1), added x (null,2), removed b (2,null), unchanged c (3,3).
C9_Witness ==
    /\ diffPc = "Done"
    /\ diffOriginal = <<"a", "\n", "b", "\n", "c">>
    /\ diffOptimized = <<"a", "\n", "x", "\n", "c">>
    /\ diff = <<DiffLine("unchanged", <<"a">>, <<1>>, <<1>>),
                DiffLine("added", <<"x">>, <<>>, <<2>>),
                DiffLine("removed", <<"b">>, <<2>>, <<>>),
                DiffLine("unchanged", <<"c">>, <<3>>, <<3>>)>>

\* C10: computeDiff aligns only the first MAX_LINES lines of each input;
\* exactly one synthetic unchanged entry with both line numbers null is
\* appended as the last entry if and only if the original or the candidate
\* has more than MAX_LINES lines, and it reports max(original lines,
\* candidate lines) - MAX_LINES elided lines; no such entry appears when both
\* sides have at most MAX_LINES lines.
C10_ElidedEntry ==
    diffPc = "Done" =>
        LET x == split(diffOriginal)
            y == split(diffOptimized)
            synthetic == {k \in 1..Len(diff) :
                             diff[k].originalLineNo = <<>> /\ diff[k].newLineNo = <<>>}
            aligned == IF CutShort THEN SubSeq(diff, 1, Len(diff) - 1) ELSE diff
            origSide == SelectSeq(aligned, LAMBDA e : e.type # "added")
            newSide == SelectSeq(aligned, LAMBDA e : e.type # "removed")
        IN  /\ [k \in 1..Len(origSide) |-> origSide[k].content]
                  = SubSeq(x, 1, Min2(Len(x), MAX_LINES))
            /\ [k \in 1..Len(newSide) |-> newSide[k].content]
                  = SubSeq(y, 1, Min2(Len(y), MAX_LINES))
            /\ CutShort =>
                  /\ synthetic = {Len(diff)}
                  /\ diff[Len(diff)] =
                        DiffLine("unchanged",
                                 ElidedContent(Max2(Len(x), Len(y)) - MAX_LINES), <<>>, <<>>)
            /\ ~CutShort => synthetic = {}

\* C10: only the candidate is longer than the cap, and the result ends with
\* the synthetic entry.
C10_Witness ==
    /\ diffPc = "Done"
    /\ Len(split(diffOriginal)) <= MAX_LINES
    /\ Len(split(diffOptimized)) > MAX_LINES
    /\ diff[Len(diff)].originalLineNo = <<>>
    /\ diff[Len(diff)].newLineNo = <<>>
    /\ Len(diff) > MAX_LINES + 1

----------------------------------------------------------------------------
(* Properties of repairTruncatedCode, checked under SpecRepair.            *)

\* C11: whenever repairTruncatedCode returns wasRepaired = true, the same
\* scan over its repaired output ends with an empty stack (a second call on
\* the output returns wasRepaired = false), for every input, the ones that
\* end inside an unterminated string literal included.
C11_RepairedOutputIsBalanced ==
    (repairPc = "Rescanned" /\ firstRepair[1].wasRepaired)
        => /\ ~secondRepair[1].wasRepaired
           /\ BracketScan(firstRepair[1].repaired).stack = <<>>

\* C11: the text of an opening brace and an opening double quote is repaired
\* by appending the closing brace, and the second call repairs it again: the
\* closing brace it appended lies inside the string literal left open.
C11_Witness ==
    /\ repairPc = "Rescanned"
    /\ repairCode = <<"{", "\"">>
    /\ firstRepair[1] = [repaired |-> <<"{", "\"", "\n", "}">>, wasRepaired |-> TRUE]
    /\ secondRepair[1].wasRepaired
    /\ BracketScan(firstRepair[1].repaired).inString

----------------------------------------------------------------------------
(* Properties of extractCode, checked under Spec.                          *)

\* C12: when the raw text begins with an object marker and holds a parseable
\* optimized_code field, the candidate extracted is the value of that field,
\* unescaped, and not the text of the object around it.
C12_ObjectFieldIsExtracted ==
    \A b \in WrappedBodies \ {<<>>} :
        (rawText = JsonText(b) /\ pc # "Start" /\ parseWarning = <<>>)
            => extracted = SomeCode(b)

\* C12: the object whose optimized_code is g(); has been through Step 1, and
\* the candidate is the whole text of the object, marker and field name
\* included.
C12_Witness ==
    /\ rawText = JsonText(lnCall)
    /\ pc = "Extracted"
    /\ extracted = SomeCode(rawText)
    /\ startsWith(extracted.text, <<"{", "\"", "o", "p", "t">>)

\* C13: when the raw text opens a fence that is never closed, the candidate
\* extracted is the text after the opening fence line, trimmed, for every
\* interior that is not blank, whatever its length, and the fence marker is
\* no part of the candidate.
C13_OpenFenceInteriorIsExtracted ==
    \A b \in WrappedBodies :
        (rawText = OpenFencedText(b) /\ trim(b) # <<>> /\ pc # "Start" /\ parseWarning = <<>>)
            => /\ extracted = SomeCode(trim(b))
               /\ ~includes(extracted.text, Fence)

\* C13: the open fence followed by the four characters g(); has been through
\* Step 1, and the candidate begins with the fence marker.
C13_Witness ==
    /\ rawText = OpenFencedText(lnCall)
    /\ pc = "Extracted"
    /\ extracted = SomeCode(rawText)
    /\ startsWith(extracted.text, Fence)

----------------------------------------------------------------------------
(* Properties of calculateCodeSimilarity, checked under SpecSimilarity.    *)

\* C14: for every non-empty string X, calculateCodeSimilarity(X, X) returns
\* 100, also when X is made only of whitespace or blank lines.
C14_SelfSimilarityOfNonEmptyText ==
    (simPc = "Done" /\ simOriginal = simOptimized /\ simOriginal # <<>>)
        => simScore = <<100>>

\* C14 as amended: for every string X with at least one line that is not
\* blank, calculateCodeSimilarity(X, X) returns 100; for an X without such a
\* line (empty, whitespace only, blank lines only) it returns 0.
C14_SelfSimilarityOfNonBlankText ==
    (simPc = "Done" /\ simOriginal = simOptimized)
        => IF \E k \in 1..Len(simOriginal) : simOriginal[k] \notin Whitespace
           THEN simScore = <<100>>
           ELSE simScore = <<0>>

\* C14: a text of a short padded line and a long line has been compared with
\* itself and scored 100.
C14_Witness ==
    /\ simPc = "Done"
    /\ simOriginal = join(<<lnPadded, lnFunc>>)
    /\ simOptimized = simOriginal
    /\ simScore = <<100>>

----------------------------------------------------------------------------
(* Properties of computeDiffStats, checked under SpecDiff.                 *)

\* the number of entries of a type in a diff
CountOfType(d, type) == Cardinality({k \in 1..Len(d) : d[k].type = type})

----------------------------------------------------------------------------
(* Properties of the optimizer worker, checked under SpecWorker.           *)

\* the positions in posted of the messages of a type
PostedAt(type) == {p \in 1..Len(posted) : posted[p].type = type}

\* C16: a request with unchunked code makes a single inference call: between
\* its START_OPTIMIZATION message and its 'done' message runLLMCall is
\* invoked at most once, and no retry is made.
C16_SingleInferenceCall ==
    codeBlocks = 1 =>
        /\ Len(gens) <= 1
        /\ hpc \notin {"RetryCall", "RetryNormalize"}

\* C16: the first call of a request with unchunked code returned the code
\* unchanged, the analysis had detected a pattern, and the handler has made
\* its second call of runLLMCall and awaits it.
C16_Witness ==
    /\ codeBlocks = 1
    /\ hpc = "RetryCall"
    /\ Len(gens) = 2
    /\ awaited = 2
    /\ parsed # <<>>
    /\ parsed[1]._no_change
    /\ PostedAt("retry_clear") # {}
    /\ PostedAt("done") = {}

\* C17: when the timeout of a call fires, the worker calls the cancel function
\* of the generation in flight before it reports the outcome, so that no token
\* of the timed-out generation is posted after the request's 'done' message.
C17_TimeoutCancelsGeneration ==
    /\ \A k \in 1..Len(timers) : timers[k] = "timedOut" => gens[k].cancelled
    /\ \A d \in PostedAt("done") : \A c \in PostedAt("chunk") : c < d

\* C17: the only call of a request timed out while its generation was
\* streaming; the generation was never cancelled, and a token it streamed
\* afterwards has been posted after the 'done' message.
C17_Witness ==
    /\ hpc = "Done"
    /\ Len(gens) = 1
    /\ timers[1] = "timedOut"
    /\ ~gens[1].cancelled
    /\ received.CANCEL_OPTIMIZATION = 0
    /\ posted[Len(posted)].type = "chunk"
    /\ \E d \in PostedAt("done") : d < Len(posted) /\ ~posted[d].value._parsed

\* the handler of a START_OPTIMIZATION message is past the modelLoaded test
RequestAccepted == PostedAt("stage") # {}

\* the inference of the request failed: analyzeCode or a call of runLLMCall
\* threw, or a call timed out
InferenceFailed ==
    /\ hpc = "Done"
    /\ \/ gens = <<>>
       \/ \E k \in 1..Len(gens) : gens[k].status = "failed" \/ timers[k] = "timedOut"

\* at most one 'done' message, exactly one once the handler has ended, and the
\* fields of its value after a failure
OneDoneMessage ==
    /\ Cardinality(PostedAt("done")) <= 1
    /\ hpc = "Done" => Cardinality(PostedAt("done")) = 1
    /\ PostedAt("done") # {} => hpc = "Done"
    /\ \A d \in PostedAt("done") :
          LET r == posted[d].value
          IN  (InferenceFailed \/ ~r._parsed)
                  => /\ ~r._parsed
                     /\ r.confidence = 0
                     /\ r.optimized_code = originalCode

CheckedCandidate ==
    LET cand == extractCode(rawText)
    IN  IF NeedsRepair(cand.text) /\ repairTruncatedCode(cand.text).wasRepaired
        THEN repairTruncatedCode(cand.text).repaired
        ELSE cand.text

\* the position in the order extraction (1), truncation/repair (2), size (3),
\* element preservation (4), similarity (5) of the first check that rawText
\* fails, 6 when it passes them all
FirstFailingCheck ==
    LET cand == extractCode(rawText)
        checked == CheckedCandidate
        origMeaningful == countMeaningfulLines(originalCode)
        optMeaningful  == countMeaningfulLines(checked)
    IN  IF NothingExtracted(cand) THEN 1
        ELSE IF NeedsRepair(cand.text) /\ ~repairTruncatedCode(cand.text).wasRepaired THEN 2
        ELSE IF SizeCheckFails(origMeaningful, optMeaningful) THEN 3
        ELSE IF Len(missingParts(validateElementPreservation(originalCode, checked))) > 0
             THEN 4
        ELSE IF /\ calculateCodeSimilarity(originalCode, checked) < 50
                /\ normalizeCode(checked) # normalizeCode(originalCode)
             THEN 5
        ELSE 6

\* the check a fallback warning belongs to
CheckOfWarning(w) ==
    IF w = WarnNoCode THEN 1
    ELSE IF w = WarnTruncated THEN 2
    ELSE IF w.template = WarnSize(0, 0).template THEN 3
    ELSE IF w.template = WarnElements(<<>>).template THEN 4
    ELSE IF w.template = WarnSimilarity(0).template THEN 5
    ELSE 0

\* the number of checks a call at a position has passed
ChecksPassed ==
    CASE pc = "Start" -> 0
      [] pc = "Extracted" -> 1
      [] pc = "TruncationChecked" -> 2
      [] pc = "SizeChecked" -> 3
      [] pc = "ElementsChecked" -> 4
      [] pc \in {"SimilarityChecked", "Accepted"} -> 5
      [] OTHER -> CheckOfWarning(result[1]._parse_warning[1]) - 1

\* a fallback reports the first check its input fails, having passed the
\* checks before it, and a result is accepted when there is none
ReasonIsOfFirstFailingCheck ==
    Returned =>
        LET first == FirstFailingCheck
        IN  /\ ChecksPassed < first
            /\ pc = "Fallback" => CheckOfWarning(result[1]._parse_warning[1]) = first
            /\ pc = "Accepted" => first = 6

\* a step makes the next check of the order, and it either passes it or falls
\* back; no step follows a fallback
OneCheckInOrder ==
    LET before == ChecksPassed
    IN  /\ pc # "Fallback"
        /\ \/ pc' = "Fallback" /\ before < 5
           \/ pc' = "Accepted" /\ pc = "SimilarityChecked"
           \/ pc' \notin {"Accepted", "Fallback"} /\ ChecksPassed' = before + 1

PastTruncationCheck ==
    \/ pc \in {"TruncationChecked", "SizeChecked", "ElementsChecked", "SimilarityChecked",
               "Accepted"}
    \/ pc = "Fallback" /\ CheckOfWarning(result[1]._parse_warning[1]) > 2

\* C20: no accepted result carries code that isCodeTruncated reads as
\* incomplete: a candidate it flags is repaired by appending closers, and then
\* no longer reads as incomplete, or the call falls back with the 'truncated
\* and could not be repaired' reason.
C20_AcceptedCodeIsNotTruncated ==
    LET cand == extractCode(rawText)
        flagged == ~NothingExtracted(cand) /\ isCodeTruncated(cand.text)
        repair == repairTruncatedCode(cand.text)
    IN  /\ pc = "Accepted" => ~isCodeTruncated(result[1].optimized_code)
        /\ PastTruncationCheck => ~isCodeTruncated(extracted.text)
        /\ (flagged /\ PastTruncationCheck) =>
              /\ repair.wasRepaired
              /\ extracted.text = repair.repaired
              /\ extracted.text = trimEnd(cand.text) \o <<"\n">>
                                     \o SubSeq(extracted.text, Len(trimEnd(cand.text)) + 2,
                                               Len(extracted.text))
              /\ extracted.text[Len(extracted.text)] \in {"}", ")", "]"}
        /\ (flagged /\ Returned /\ ~PastTruncationCheck) =>
              /\ ~repair.wasRepaired
              /\ result[1]._parse_warning[1] = WarnTruncated

\* C20: a candidate that ended in an opening bracket was repaired, and the
\* repaired code, which no longer reads as incomplete, was accepted with the
\* warning of the repair.
C20_Witness ==
    /\ pc = "Accepted"
    /\ isCodeTruncated(extractCode(rawText).text)
    /\ result[1]._parse_warning = <<WarnRepaired>>
    /\ result[1].optimized_code = repairTruncatedCode(extractCode(rawText).text).repaired
    /\ result[1].optimized_code # originalCode

\* C21, as stated: the Repairer is applied only to candidates that
\* isCodeTruncated flags: an extracted candidate it does not flag reaches the
\* later checks unmodified, and when accepted it is the optimized_code, with
\* no repair warning and no cap of 50 on the confidence.
C21_UnflaggedCandidateIsUnmodified ==
    LET cand == extractCode(rawText)
    IN  (~NothingExtracted(cand) /\ ~isCodeTruncated(cand.text) /\ PastTruncationCheck) =>
            /\ extracted.text = cand.text
            /\ parseWarning = <<>>
            /\ pc = "Accepted" =>
                  /\ result[1].optimized_code = cand.text
                  /\ result[1]._parse_warning = <<>>

\* C21, amended: the Repairer is applied to every candidate whose bracket scan
\* ends with openers left unclosed, flagged by isCodeTruncated or not: the
\* candidate then goes on with the closers appended and the repair warning;
\* a candidate that is not flagged and has no opener left unclosed goes on
\* unmodified, and when accepted it is the optimized_code, with no warning
\* and the confidence computed without the cap of 50.
C21_CandidateIsRepairedWhenOpenersAreUnclosed ==
    LET cand == extractCode(rawText)
        repair == repairTruncatedCode(cand.text)
    IN  (~NothingExtracted(cand) /\ PastTruncationCheck) =>
            IF repair.wasRepaired
            THEN /\ extracted.text = repair.repaired
                 /\ parseWarning = <<WarnRepaired>>
                 /\ pc = "Accepted" =>
                       /\ result[1].optimized_code = repair.repaired
                       /\ result[1]._parse_warning = <<WarnRepaired>>
                       /\ result[1].confidence <= 50
            ELSE /\ ~isCodeTruncated(cand.text)
                 /\ extracted.text = cand.text
                 /\ parseWarning = <<>>
                 /\ pc = "Accepted" =>
                       /\ result[1].optimized_code = cand.text
                       /\ result[1]._parse_warning = <<>>
                       /\ result[1].confidence =
                             Confidence(analysis, result[1]._c_language, result[1]._no_change,
                                        calculateCodeSimilarity(originalCode, cand.text), FALSE)

\* C21: a candidate that isCodeTruncated does not flag, with an opener left
\* unclosed, was repaired and accepted: the optimized_code is the candidate
\* with the closer appended, under the repair warning and the cap of 50, for
\* an analysis whose score alone would give more.
C21_Witness ==
    /\ pc = "Accepted"
    /\ ~isCodeTruncated(extractCode(rawText).text)
    /\ repairTruncatedCode(extractCode(rawText).text).wasRepaired
    /\ result[1].optimized_code # extractCode(rawText).text
    /\ result[1]._parse_warning = <<WarnRepaired>>
    /\ result[1].confidence = 50
    /\ analysis.confidence_score * 100 > 50 * 1000

\* the state of the scan of repairTruncatedCode after the first i characters
ScanAfter(code, i) == BracketScan(SubSeq(code, 1, i))

\* C22: repairTruncatedCode only appends: when the stack of closers is not
\* empty at the end of the scan the output is the text without its trailing
\* whitespace, then for each stacked closer, the last pushed first, a newline
\* and the closer, with wasRepaired true; when the stack is empty the output
\* is the text unchanged with wasRepaired false; and a closing character that
\* is not the top of the stack leaves the stack as it is.
C22_RepairAppendsClosersInLifoOrder ==
    repairPc # "Start" =>
        LET code == repairCode
            r == firstRepair[1]
            stack == BracketScan(code).stack
            t == trimEnd(code)
        IN  /\ r.wasRepaired <=> stack # <<>>
            /\ ~r.wasRepaired => r.repaired = code
            /\ r.wasRepaired =>
                  /\ Len(r.repaired) = Len(t) + 2 * Len(stack)
                  /\ SubSeq(r.repaired, 1, Len(t)) = t
                  /\ \A k \in 1..Len(stack) :
                        /\ r.repaired[Len(t) + 2 * k - 1] = "\n"
                        /\ r.repaired[Len(t) + 2 * k] = stack[Len(stack) + 1 - k]
            /\ \A i \in 1..Len(code) :
                  LET before == ScanAfter(code, i - 1).stack
                  IN  (/\ code[i] \in Closers
                       /\ before = <<>> \/ before[Len(before)] # code[i])
                          => ScanAfter(code, i).stack = before

\* C22: the text '{(} ' is repaired to '{(}', a newline, ')', a newline and
\* '}': the brace that does not close the parenthesis on top of the stack
\* was passed over, the trailing blank removed, and the closers appended with
\* the last pushed first.
C22_Witness ==
    /\ repairPc # "Start"
    /\ repairCode = <<"{", "(", "}", " ">>
    /\ BracketScan(repairCode).stack = <<"}", ")">>
    /\ firstRepair[1] = [repaired |-> <<"{", "(", "}", "\n", ")", "\n", "}">>,
                         wasRepaired |-> TRUE]

----------------------------------------------------------------------------
(* Properties of the size and similarity checks, checked under SpecSize.   *)

\* the call has made its size check
SizeDecided ==
    \/ pc \in {"SizeChecked", "ElementsChecked", "SimilarityChecked", "Accepted"}
    \/ pc = "Fallback" /\ CheckOfWarning(result[1]._parse_warning[1]) >= 3

\* c / o strictly below the threshold of an original of o meaningful lines
BelowThreshold(o, c) ==
    /\ o >= 1
    /\ IF o <= 10 THEN 10 * c < o
       ELSE IF o <= 40 THEN 10 * c < 3 * o
       ELSE 10 * c < 4 * o

----------------------------------------------------------------------------
(* Properties of the element preservation check, checked under             *)
(* SpecElements.                                                           *)

\* the call has passed the size check and the element check has decided
ElementsDecided ==
    \/ pc \in {"ElementsChecked", "SimilarityChecked", "Accepted"}
    \/ pc = "Fallback" /\ CheckOfWarning(result[1]._parse_warning[1]) >= 4

\* what each line of ElemLineSet declares
Declares(line) ==
    LET none == [variables |-> <<>>, functions |-> <<>>, classes |-> <<>>, imports |-> <<>>]
    IN  CASE line = lnTotal  -> [none EXCEPT !.variables = <<<<"t","o","t","a","l">>>>]
          [] line = lnLetter -> [none EXCEPT !.variables = <<<<"q">>>>]
          [] line = lnTmp    -> [none EXCEPT !.variables = <<<<"t","m","p">>>>]
          [] line = lnArrow  -> [none EXCEPT !.variables = <<<<"a","d","d">>>>,
                                             !.functions = <<<<"a","d","d">>>>]
          [] line = lnBox    -> [none EXCEPT !.classes = <<<<"B","o","x">>>>]
          [] line = lnImport -> [none EXCEPT !.imports = <<<<"f","s">>>>]
          [] line = lnMax    -> [none EXCEPT !.functions = <<<<"m","a","x">>>>]
          [] OTHER -> none

Categories == {"variables", "functions", "classes", "imports"}

\* the names of a category that the lines of a text declare
DeclaredIn(code, category) ==
    LET lines == split(code)
    IN  UNION {{Declares(l)[category][k] : k \in 1..Len(Declares(l)[category])} :
                  l \in {lines[k] : k \in 1..Len(lines)}}

\* the names of a category that count as missing from the candidate
MissingNames(category) ==
    LET gone == DeclaredIn(originalCode, category) \ DeclaredIn(extracted.text, category)
    IN  IF category = "variables"
        THEN {v \in gone : ~(\/ Len(v) = 1 /\ v[1] \in LowerChars
                             \/ v \in TrivialNames)}
        ELSE gone

LabelOf(category) ==
    CASE category = "variables" -> "variable(s)"
      [] category = "functions" -> "function(s)"
      [] category = "classes" -> "class(es)"
      [] category = "imports" -> "import(s)"

\* the entries of a warning are, in the order variables, functions, classes,
\* imports, the categories with a missing name, each with the number of its
\* missing names and every one of them, once
ListsEveryMissingName(parts) ==
    LET order == <<"variables", "functions", "classes", "imports">>
        present == SelectSeq(order, LAMBDA c : MissingNames(c) # {})
    IN  /\ Len(parts) = Len(present)
        /\ \A k \in 1..Len(present) :
              /\ parts[k].label = LabelOf(present[k])
              /\ parts[k].count = Cardinality(MissingNames(present[k]))
              /\ Len(parts[k].names) = parts[k].count
              /\ {parts[k].names[n] : n \in 1..Len(parts[k].names)} = MissingNames(present[k])

\* C24: once the size check has passed, the call falls back at the element
\* preservation check exactly when a function, class or import name of the
\* original is absent from the candidate's names of the same category, or a
\* variable name that is neither a single lowercase letter nor one of the
\* fixed short names is; missing trivial variable names alone cause no
\* fallback, and the warning lists every missing name under its category.
C24_ElementFallbackExactlyWhenNameMissing ==
    ElementsDecided =>
        LET elementsFallback ==
                pc = "Fallback" /\ CheckOfWarning(result[1]._parse_warning[1]) = 4
            orig == extractCriticalElements(originalCode)
            opt == extractCriticalElements(extracted.text)
        IN  /\ \A c \in Categories :
                  /\ {orig[c][k] : k \in 1..Len(orig[c])} = DeclaredIn(originalCode, c)
                  /\ {opt[c][k] : k \in 1..Len(opt[c])} = DeclaredIn(extracted.text, c)
            /\ elementsFallback <=> \E c \in Categories : MissingNames(c) # {}
            /\ elementsFallback => ListsEveryMissingName(result[1]._parse_warning[1].parts)

\* C24: an original that declares add as an arrow function and max as a
\* function, with a candidate that declares neither, has fallen back with a
\* warning of one variable and two functions.
C24_Witness ==
    /\ originalCode = join(<<lnArrow, lnMax>>)
    /\ extracted.text = lnLetter
    /\ pc = "Fallback"
    /\ result[1]._parse_warning[1] =
          WarnElements(<<Part("variable(s)", 1, <<<<"a","d","d">>>>),
                         Part("function(s)", 2, <<<<"a","d","d">>, <<"m","a","x">>>>)>>)

----------------------------------------------------------------------------
(* The value of calculateCodeSimilarity, checked under SpecSimilarity.     *)

\* the lines of a text that are not blank, trimmed
TrimmedNonBlank(code) ==
    LET lines == split(code)
        kept == SelectSeq(lines, LAMBDA l : \E k \in 1..Len(l) : l[k] \notin Whitespace)
    IN  [k \in 1..Len(kept) |-> trim(kept[k])]

\* one line holds the first ten characters of the other
HoldsFirstTen(o, p) ==
    \E at \in 0..(Len(o) - 10) : \A k \in 1..10 : o[at + k] = p[k]

\* the positions below shorterLen at which the lines are equal, or both are
\* longer than 10 characters and one holds the first 10 of the other
MatchingPositions(a, b) ==
    {k \in 1..Min2(Len(a), Len(b)) :
        \/ a[k] = b[k]
        \/ /\ Len(a[k]) > 10
           /\ Len(b[k]) > 10
           /\ (HoldsFirstTen(a[k], b[k]) \/ HoldsFirstTen(b[k], a[k]))}

NonBlankCount(code) == Len(TrimmedNonBlank(code))

----------------------------------------------------------------------------
(* Properties of the results reported as unchanged, checked under Spec.    *)

\* C27: every accepted result with _no_change = true has confidence 100 and
\* no _parse_warning; a repair never yields a result reported as unchanged.
C27_UnchangedResultHasFullConfidence ==
    (pc = "Accepted" /\ result[1]._parsed /\ result[1]._no_change) =>
        /\ result[1].confidence = 100
        /\ result[1]._parse_warning = <<>>
        /\ ~repairTruncatedCode(extractCode(rawText).text).wasRepaired

\* C27, amended: an accepted result with _no_change = true has confidence
\* 100 and no _parse_warning when its candidate was not repaired; when the
\* candidate was repaired and the repaired text is the original up to
\* trailing white space, the result is reported as unchanged with the repair
\* warning and confidence 50.  Its similarity is 100 in both cases.
C27_UnchangedResultHasFullConfidenceUnlessRepaired ==
    (pc = "Accepted" /\ result[1]._parsed /\ result[1]._no_change) =>
        LET cand == extractCode(rawText)
            repair == repairTruncatedCode(cand.text)
        IN  /\ calculateCodeSimilarity(originalCode, result[1].optimized_code) = 100
            /\ IF repair.wasRepaired
               THEN /\ result[1].optimized_code = repair.repaired
                    /\ normalizeCode(repair.repaired) = normalizeCode(originalCode)
                    /\ result[1]._parse_warning = <<WarnRepaired>>
                    /\ result[1].confidence = 50
               ELSE /\ result[1].optimized_code = cand.text
                    /\ result[1]._parse_warning = <<>>
                    /\ result[1].confidence = 100

\* C27: a candidate cut off after the opening brace of the original's
\* function was repaired into the original and accepted as unchanged, with
\* the repair warning and confidence 50.
C27_Witness ==
    /\ pc = "Accepted"
    /\ rawText = lnFunc
    /\ originalCode = join(<<lnFunc, lnClose>>)
    /\ result[1].optimized_code = originalCode
    /\ result[1]._no_change
    /\ result[1]._parse_warning = <<WarnRepaired>>
    /\ result[1].confidence = 50

----------------------------------------------------------------------------
(* Properties of the alignment of computeDiff, checked under SpecDiff.     *)

\* the first MAX_LINES lines of a text
FirstLines(code) ==
    LET lines == split(code)
    IN  SubSeq(lines, 1, Min2(Len(lines), MAX_LINES))

\* the entries of the diff but the synthetic one
AlignedEntries ==
    SelectSeq(diff, LAMBDA e : e.originalLineNo # <<>> \/ e.newLineNo # <<>>)

\* the k-th smallest element of a set of numbers
KthOf(S, k) == CHOOSE x \in S : Cardinality({y \in S : y <= x}) = k

\* the subsequences of a sequence, one for each set of its positions
Subsequences(seq) ==
    {[k \in 1..Cardinality(S) |-> seq[KthOf(S, k)]] : S \in SUBSET (1..Len(seq))}

\* the length of a longest common subsequence, by enumeration
LongestCommon(x, y) ==
    SetMax({Len(c) : c \in Subsequences(x) \cap Subsequences(y)})

\* C28: the alignment computeDiff returns is minimal: the synthetic elided
\* entry apart, its unchanged entries are as many as a longest common
\* subsequence of the first MAX_LINES lines of the original and of the
\* candidate is long, so that the removed entries are the other lines of the
\* original and the added ones the other lines of the candidate, and no
\* alignment has fewer of them.
C28_AlignmentIsMinimal ==
    diffPc = "Done" =>
        LET x == FirstLines(diffOriginal)
            y == FirstLines(diffOptimized)
            longest == LongestCommon(x, y)
        IN  /\ CountOfType(AlignedEntries, "unchanged") = longest
            /\ CountOfType(AlignedEntries, "removed") = Len(x) - longest
            /\ CountOfType(AlignedEntries, "added") = Len(y) - longest

\* C28: the diff of a, b, c and c, a, x, whose longest common subsequences
\* have one line, has been computed with one unchanged entry, two removed
\* and two added.
C28_Witness ==
    /\ diffPc = "Done"
    /\ diffOriginal = <<"a", "\n", "b", "\n", "c">>
    /\ diffOptimized = <<"c", "\n", "a", "\n", "x">>
    /\ CountOfType(diff, "unchanged") = 1
    /\ CountOfType(diff, "removed") = 2
    /\ CountOfType(diff, "added") = 2

\* the contents of the entries of the aligned diff that are not of a type
SideOf(excluded) ==
    LET side == SelectSeq(AlignedEntries, LAMBDA e : e.type # excluded)
    IN  [k \in 1..Len(side) |-> side[k].content]

\* C29: for any two strings, the synthetic elided entry apart, the contents
\* of the removed and unchanged entries of computeDiff, in order, are the
\* first MAX_LINES lines of the original, and the contents of the added and
\* unchanged entries, in order, are the first MAX_LINES lines of the
\* candidate; computeDiff(X, X) has only unchanged entries.
C29_SidesOfDiffAreTheInputs ==
    diffPc = "Done" =>
        /\ \A k \in 1..Len(diff) : diff[k].type \in {"added", "removed", "unchanged"}
        /\ SideOf("added") = FirstLines(diffOriginal)
        /\ SideOf("removed") = FirstLines(diffOptimized)
        /\ diffOriginal = diffOptimized =>
              /\ \A k \in 1..Len(diff) : diff[k].type = "unchanged"
              /\ Len(AlignedEntries) = Len(FirstLines(diffOriginal))

\* C29: the diff of the text a, c, a with itself has been computed: three
\* unchanged entries, which are its lines.
C29_Witness ==
    /\ diffPc = "Done"
    /\ diffOriginal = <<"a", "\n", "c", "\n", "a">>
    /\ diffOptimized = diffOriginal
    /\ diff = <<DiffLine("unchanged", <<"a">>, <<1>>, <<1>>),
                DiffLine("unchanged", <<"c">>, <<2>>, <<2>>),
                DiffLine("unchanged", <<"a">>, <<3>>, <<3>>)>>

----------------------------------------------------------------------------
(* Termination of computeDiff, checked under SpecDiffFair.                 *)

\* while the loop runs and after it, i and j lie within the table of
\* (m + 1) x (n + 1) entries, the cells read for a pair of different lines
\* (dp[i - 1][j] and dp[i][j - 1], read when i > 0 and j > 0) with them, and
\* the iterations made so far are at most the decrease of i + j
BacktrackInBounds ==
    diffPc \in {"Backtrack", "Done", "Stats"} =>
        LET m == Len(aLines)
            n == Len(bLines)
        IN  /\ Len(dp) = m + 1
            /\ \A r \in 1..(m + 1) : Len(dp[r]) = n + 1
            /\ iBack \in 0..m
            /\ jBack \in 0..n
            /\ (iBack > 0 /\ jBack > 0) =>
                  /\ (iBack - 1) + 1 \in DOMAIN dp
                  /\ jBack + 1 \in DOMAIN dp[iBack]
                  /\ iBack + 1 \in DOMAIN dp
                  /\ (jBack - 1) + 1 \in DOMAIN dp[iBack + 1]
            /\ Len(ops) + iBack + jBack <= m + n
            /\ Len(ops) <= m + n
            /\ diffPc \in {"Done", "Stats"} =>
                  /\ iBack = 0
                  /\ jBack = 0
                  /\ Len(AlignedEntries) = Len(ops)

\* an iteration of the loop pushes one op and strictly decreases i + j,
\* neither index falling below 0
BacktrackDecreases ==
    (diffPc = "Backtrack" /\ ops' # ops) =>
        /\ Len(ops') = Len(ops) + 1
        /\ iBack' + jBack' < iBack + jBack
        /\ iBack' >= 0
        /\ jBack' >= 0
        /\ iBack' \in {iBack, iBack - 1}
        /\ jBack' \in {jBack, jBack - 1}

\* C30: for any two strings, the empty ones included, computeDiff terminates
\* without error: each iteration of the backtracking loop strictly decreases
\* i + j, stays within the LCS table, the loop reaches (0, 0) after at most
\* m + n iterations, one entry is emitted for each iteration, and every call
\* returns.
C30_BacktrackingTerminates ==
    /\ []BacktrackInBounds
    /\ [][BacktrackDecreases]_vars
    /\ (diffPc = "Start") ~> (diffPc = "Done")

\* C30: the diff of two empty strings, each of which splits into one empty
\* line, has been returned after one iteration: one unchanged entry.
C30_Witness ==
    /\ diffPc = "Done"
    /\ diffOriginal = <<>>
    /\ diffOptimized = <<>>
    /\ Len(ops) = 1
    /\ iBack = 0
    /\ jBack = 0
    /\ diff = <<DiffLine("unchanged", <<>>, <<1>>, <<1>>)>>

====
